---------------------------- MODULE Spec2Model ----------------------------
(***************************************************************************)
(* Driver ledger of the clock bot: the attendance state machine, the       *)
(* salary accrual and the account ledger of src/clock_bot.py with its      *)
(* MongoDB persistence layer src/db_mongo.py, and the SQLite data-access   *)
(* layer src/db_utils.py.                                                  *)
(*                                                                         *)
(* Encoding.  A wall-clock reading is an integer number of ticks of        *)
(* TickSec seconds; a "%Y-%m-%d %H:%M:%S" timestamp string is the tick it  *)
(* denotes and a "%Y-%m-%d" date string is the day number of that tick.    *)
(* Hours (a float in the code) are kept exactly, as a number of seconds;   *)
(* money (a float in the code) is kept exactly, as a number of cents.      *)
(* The rounding of binary floating point is not modelled.                  *)
(***************************************************************************)
EXTENDS Integers, Sequences, FiniteSets, TLC

(***************************************************************************)
(* Bounds of the model and program constants.                              *)
(***************************************************************************)
\* Last clock reading of the model, in ticks (day 1, 00:45).
MaxTime == 11
\* First clock reading of the model, in ticks (day 0, 20:15).
StartTime == 9
\* Number of ledger entries (claims and top-ups, of all accounts together) the
\* model lets the handlers add.
MaxHist == 2
\* Number of rows the model lets the SQLite table clock_logs grow to.
MaxRows == 3

\* The bound on the total_hours a store may hold when the process restarts or
\* a row of the table salaries is updated, in ticks.
MaxAccrued == 4
SecPerHour == 3600
MinPerHour == 60
\* Seconds of a calendar day of the business timezone (no daylight saving).
SecPerDay == 24 * SecPerHour
\* One tick of the model's clock is 2 h 15 min.
TickSec == 135 * MinPerHour

DEFAULT_MONTHLY_SALARY == 350000
\* The default hourly rate, in cents.
DEFAULT_HOURLY_RATE == 2000
WORKING_DAYS_PER_MONTH == 22
WORKING_HOURS_PER_DAY == 8
ADMIN_ID == 1165249082
ADMIN_IDS == {ADMIN_ID}

\* Telegram user ids of the drivers of the model.
Drivers == {1, 2}
Users == Drivers \cup ADMIN_IDS

(***************************************************************************)
(* Time and duration utilities.                                            *)
(***************************************************************************)
\* datetime.now(tz).strftime("%Y-%m-%d"): the date string of a clock reading.
DateOf(t) == (t * TickSec) \div SecPerDay

\* (out_time - in_time).total_seconds() of two parsed timestamps.
TotalSeconds(in_t, out_t) == (out_t - in_t) * TickSec

\* int(float(hours) * 60): Python's int() truncates toward zero.
TotalMinutesRounded(secs) == (secs + 30) \div MinPerHour

TotalMinutes(secs) ==
    IF secs >= 0 THEN secs \div MinPerHour ELSE -((-secs) \div MinPerHour)

\* format_duration(hours); the string "<H>Hour <M>Min" / "<H>Hour" / "<M>Min"
\* is kept as its form and the numbers printed in it.
FormatDuration(secs) ==
    LET total_minutes == TotalMinutes(secs)
        hours_part == total_minutes \div MinPerHour
        minutes_part == total_minutes % MinPerHour
    IN  IF hours_part > 0 /\ minutes_part > 0
        THEN [form |-> "HourMin", hours_part |-> hours_part, minutes_part |-> minutes_part]
        ELSE IF hours_part > 0
        THEN [form |-> "Hour", hours_part |-> hours_part, minutes_part |-> 0]
        ELSE [form |-> "Min", hours_part |-> 0, minutes_part |-> minutes_part]

NoDuration == [form |-> "none", hours_part |-> 0, minutes_part |-> 0]

(***************************************************************************)
(* Attendance values: 'N/A', 'OFF' or a timestamp string.                  *)
(***************************************************************************)
NA == [kind |-> "N/A", t |-> 0]
OFF == [kind |-> "OFF", t |-> 0]
TS(t) == [kind |-> "ts", t |-> t]

\* value not in ['N/A', 'OFF']
IsReal(v) == v.kind \notin {"N/A", "OFF"}

\* d[k] = v on a Python dict d
Put(d, k, v) == [x \in DOMAIN d \cup {k} |-> IF x = k THEN v ELSE d[x]]

EmptyDict == [x \in {} |-> 0]

VARIABLES
    now,              \* the wall clock of the business timezone, in ticks
    driver_logs,      \* clock_bot.driver_logs: user -> date -> [in, out]
    driver_salaries,  \* clock_bot.driver_salaries: user -> salary record
    driver_accounts,  \* clock_bot.driver_accounts: user -> account record
    db_logs,          \* collection driver_logs: <<user, date>> -> [clock_in, clock_out]
    db_salaries,      \* collection driver_salaries: user -> document
    db_accounts,      \* collection driver_accounts: user -> document
    reply,            \* what the last handler told its caller
    claim_state,      \* clock_bot.claim_state: user -> the claim being entered
    claim_conv,       \* state of the claim ConversationHandler, per user
    topup_conv,       \* state of the top-up ConversationHandler, per user
    user_data,        \* context.user_data: user -> key -> value
    sq_claims,        \* SQLite table claims, in claim_id order
    sq_topups,        \* SQLite table topups, in topup_id order
    sq_accounts,      \* SQLite table accounts: driver_id -> balance
    sq_logs,          \* SQLite table clock_logs, in log_id order
    sq_salaries,      \* SQLite table salaries: driver_id -> row
    salary_conv,      \* state of the salary ConversationHandler, per user
    threads,          \* the handler executions in flight, when requests are
                      \* served by several threads of one process
    mongo             \* db_mongo.create_mongo_client: the position in its
                      \* retry loop, its locals and the value it returns

vars == <<now, driver_logs, driver_salaries, driver_accounts,
          db_logs, db_salaries, db_accounts, reply,
          claim_state, claim_conv, topup_conv, user_data,
          sq_claims, sq_topups, sq_accounts, sq_logs, sq_salaries, salary_conv, threads,
          mongo>>

convVars == <<claim_state, claim_conv, topup_conv, user_data>>
sqVars == <<sq_claims, sq_topups, sq_accounts, sq_logs, sq_salaries>>

memVars == <<driver_logs, driver_salaries, driver_accounts>>
dbVars == <<db_logs, db_salaries, db_accounts>>

\* create_mongo_client: the number of connection attempts and the first delay,
\* in seconds.
retries == 5
delay == 5

\* What one attempt (MongoClient(...) and client.server_info()) ends with: the
\* client, one of the three connection errors that are retried, or any other
\* exception.
ConnectionErrors == {"AutoReconnect", "ConnectionFailure", "ServerSelectionTimeoutError"}
AttemptOutcomes == {"connected", "ConfigurationError"} \cup ConnectionErrors

\* The locals of create_mongo_client when it is called, with the outcome of the
\* attempts made and the sleeps taken so far.
Connecting ==
    [pc |-> "connect", attempt |-> 0, delay |-> delay, returned |-> "nothing",
     attempts |-> <<>>, slept |-> <<>>]

\* The request threads of the model.
Threads == {1, 2}

\* A thread that is not executing a handler.
Idle == [pc |-> "idle", caller |-> 0, user |-> 0, today |-> 0, stamp |-> 0,
         hours |-> 0, tmp |-> 0, amount |-> 0]

NoReply ==
    [op |-> "none", user |-> 0, result |-> "none", stored |-> FALSE,
     hours |-> 0, shown |-> NoDuration, amount |-> 0]

Reply(op, user, result, stored) ==
    [op |-> op, user |-> user, result |-> result, stored |-> stored,
     hours |-> 0, shown |-> NoDuration, amount |-> 0]

(***************************************************************************)
(* db_mongo: the persistence layer.  Every function catches its own        *)
(* exceptions and returns.  A call either completes (W is every key it     *)
(* iterates over) or fails before its first write (W is empty: no          *)
(* connection, "if not db", or an error of the first update_one).          *)
(***************************************************************************)
\* What a save call has written when it returns: all of its keys, or none.
Outcomes(keys) == {keys, {}}

\* The (user, date) pairs save_driver_logs iterates over.
LogKeys(logs) ==
    {k \in (DOMAIN logs) \X (0..DateOf(MaxTime)) : k[2] \in DOMAIN logs[k[1]]}

\* save_driver_logs(logs) having completed the update_one calls of the keys W.
SaveDriverLogs(store, logs, W) ==
    [k \in DOMAIN store \cup W |->
        IF k \in W
        THEN [clock_in |-> logs[k[1]][k[2]].in, clock_out |-> logs[k[1]][k[2]].out]
        ELSE store[k]]

\* save_driver_salaries(salaries) having completed the update_one calls of the users W.
SaveDriverSalaries(store, salaries, W) ==
    [u \in DOMAIN store \cup W |-> IF u \in W THEN salaries[u] ELSE store[u]]

(***************************************************************************)
(* Initial state: an empty store, loaded into empty dictionaries.          *)
(***************************************************************************)
Init ==
    /\ now = StartTime
    /\ driver_logs = EmptyDict
    /\ driver_salaries = EmptyDict
    /\ driver_accounts = EmptyDict
    /\ db_logs = EmptyDict
    /\ db_salaries = EmptyDict
    /\ db_accounts = EmptyDict
    /\ reply = NoReply
    /\ claim_state = EmptyDict
    /\ claim_conv = [u \in Users |-> "END"]
    /\ topup_conv = [u \in Users |-> "END"]
    /\ user_data = [u \in Users |-> EmptyDict]
    /\ sq_claims = <<>>
    /\ sq_topups = <<>>
    /\ sq_accounts = EmptyDict
    /\ sq_logs = <<>>
    /\ sq_salaries = EmptyDict
    /\ salary_conv = [u \in Users |-> "END"]
    /\ threads = [t \in Threads |-> Idle]
    /\ mongo = Connecting

(***************************************************************************)
(* The wall clock.                                                         *)
(***************************************************************************)
\* Time passes between two updates.
Tick ==
    /\ now < MaxTime
    /\ now' = now + 1
    /\ UNCHANGED <<memVars, dbVars, reply, convVars, sqVars, salary_conv, threads, mongo>>

(***************************************************************************)
(* Attendance handlers of clock_bot.                                       *)
(***************************************************************************)
\* driver_logs after "if user_id not in driver_logs: driver_logs[user_id] = {}"
WithUser(logs, u) == IF u \in DOMAIN logs THEN logs ELSE Put(logs, u, EmptyDict)

ClockedInAndOut(logs, u, today) ==
    /\ today \in DOMAIN logs[u]
    /\ IsReal(logs[u][today].out)

\* The guard of clockin: today has a record whose 'in' is not 'N/A' or 'OFF'.
AlreadyClockedIn(logs, u, today) ==
    /\ today \in DOMAIN logs[u]
    /\ IsReal(logs[u][today].in)

\* /clockin
clockin(u) ==
    LET today == DateOf(now)
        logs0 == WithUser(driver_logs, u)
    IN  IF AlreadyClockedIn(logs0, u, today)
        THEN /\ driver_logs' = logs0
             /\ reply' = Reply("clockin", u, "already_clocked_in", FALSE)
             /\ UNCHANGED <<now, driver_salaries, driver_accounts, dbVars, convVars, sqVars, salary_conv, threads, mongo>>
        ELSE LET logs1 == Put(logs0, u, Put(logs0[u], today, [in |-> TS(now), out |-> NA]))
             IN  \E W \in Outcomes(LogKeys(logs1)) :
                    /\ driver_logs' = logs1
                    /\ db_logs' = SaveDriverLogs(db_logs, logs1, W)
                    /\ reply' = Reply("clockin", u, "ok", W = LogKeys(logs1))
                    /\ UNCHANGED <<now, driver_salaries, driver_accounts,
                                   db_salaries, db_accounts, convVars, sqVars, salary_conv, threads, mongo>>

HasFinishedAttendance(logs, u, today) ==
    /\ today \in DOMAIN logs[u]
    /\ IsReal(logs[u][today].out)

\* The guard of offday: today has a record whose 'in' is not 'N/A' or 'OFF'.
AlreadyHasAttendance(logs, u, today) ==
    /\ today \in DOMAIN logs[u]
    /\ IsReal(logs[u][today].in)

\* /offday
offday(u) ==
    LET today == DateOf(now)
        logs0 == WithUser(driver_logs, u)
    IN  IF AlreadyHasAttendance(logs0, u, today)
        THEN /\ driver_logs' = logs0
             /\ reply' = Reply("offday", u, "already_clocked_in", FALSE)
             /\ UNCHANGED <<now, driver_salaries, driver_accounts, dbVars, convVars, sqVars, salary_conv, threads, mongo>>
        ELSE LET logs1 == Put(logs0, u, Put(logs0[u], today, [in |-> OFF, out |-> OFF]))
             IN  \E W \in Outcomes(LogKeys(logs1)) :
                    /\ driver_logs' = logs1
                    /\ db_logs' = SaveDriverLogs(db_logs, logs1, W)
                    /\ reply' = Reply("offday", u, "ok", W = LogKeys(logs1))
                    /\ UNCHANGED <<now, driver_salaries, driver_accounts,
                                   db_salaries, db_accounts, convVars, sqVars, salary_conv, threads, mongo>>

AccrueHoursOverwrite(salaries, u, hours, stamp) ==
    Put(salaries, u, [monthly_salary |-> DEFAULT_MONTHLY_SALARY, total_hours |-> hours,
                      last_updated |-> TS(stamp)])

\* driver_salaries.setdefault(user_id, {"monthly_salary": DEFAULT_MONTHLY_SALARY,
\* "total_hours": 0}) followed by the two updates of clockout.
AccrueHours(salaries, u, hours, stamp) ==
    LET rec0 == IF u \in DOMAIN salaries
                THEN salaries[u]
                ELSE [monthly_salary |-> DEFAULT_MONTHLY_SALARY, total_hours |-> 0,
                      last_updated |-> NA]
    IN  Put(salaries, u, [rec0 EXCEPT !.total_hours = @ + hours,
                                      !.last_updated = TS(stamp)])

\* clockout's first check: no record for today.
NoRecordToday(logs, u, today) == u \notin DOMAIN logs \/ today \notin DOMAIN logs[u]

NoClockedOutCheck(logs, u, today) == FALSE

\* clockout's second check: 'out' is not 'N/A' or 'OFF'.
AlreadyClockedOut(logs, u, today) == IsReal(logs[u][today].out)

NoOffDayCheck(logs, u, today) == FALSE

InIsNotSet(logs, u, today) == logs[u][today].in = NA

\* clockout's third check: 'in' is 'OFF'.
IsOffDay(logs, u, today) == logs[u][today].in = OFF

\* A clock-out that closes the latest open record of the driver instead of
\* looking only at today's record.
clockout_latest_open(u) ==
    LET today == DateOf(now)
        open == IF u \in DOMAIN driver_logs
                THEN {d \in DOMAIN driver_logs[u] :
                         /\ d <= today
                         /\ IsReal(driver_logs[u][d].in)
                         /\ driver_logs[u][d].out = NA}
                ELSE {}
    IN  IF open = {}
        THEN /\ reply' = Reply("clockout", u, "not_clocked_in", FALSE)
             /\ UNCHANGED <<now, memVars, dbVars, convVars, sqVars, salary_conv, threads, mongo>>
        ELSE LET d == CHOOSE x \in open : \A y \in open : y <= x
                 logs1 == [driver_logs EXCEPT ![u][d].out = TS(now)]
                 hours == TotalSeconds(driver_logs[u][d].in.t, now)
                 sal1 == AccrueHours(driver_salaries, u, hours, now)
             IN  \E W \in Outcomes(LogKeys(logs1)), S \in Outcomes(DOMAIN sal1) :
                    /\ driver_logs' = logs1
                    /\ driver_salaries' = sal1
                    /\ db_logs' = SaveDriverLogs(db_logs, logs1, W)
                    /\ db_salaries' = SaveDriverSalaries(db_salaries, sal1, S)
                    /\ reply' = [Reply("clockout", u, "ok",
                                       W = LogKeys(logs1) /\ S = DOMAIN sal1)
                                   EXCEPT !.hours = hours,
                                          !.shown = FormatDuration(hours)]
                    /\ UNCHANGED <<now, driver_accounts, db_accounts, convVars, sqVars,
                                   salary_conv, threads, mongo>>

\* /clockout
clockout(u) ==
    LET today == DateOf(now)
    IN  IF NoRecordToday(driver_logs, u, today)
        THEN /\ reply' = Reply("clockout", u, "not_clocked_in", FALSE)
             /\ UNCHANGED <<now, memVars, dbVars, convVars, sqVars, salary_conv, threads, mongo>>
        ELSE IF AlreadyClockedOut(driver_logs, u, today)
        THEN /\ reply' = Reply("clockout", u, "already_clocked_out", FALSE)
             /\ UNCHANGED <<now, memVars, dbVars, convVars, sqVars, salary_conv, threads, mongo>>
        ELSE IF IsOffDay(driver_logs, u, today)
        THEN /\ reply' = Reply("clockout", u, "rest_day", FALSE)
             /\ UNCHANGED <<now, memVars, dbVars, convVars, sqVars, salary_conv, threads, mongo>>
        ELSE LET logs1 == [driver_logs EXCEPT ![u][today].out = TS(now)]
             IN  IF ~IsReal(driver_logs[u][today].in)
                 THEN \* strptime of 'N/A' or 'OFF' raises: the outer except replies
                      \* success without a duration, after 'out' was set and before
                      \* anything was saved.
                      /\ driver_logs' = logs1
                      /\ reply' = Reply("clockout", u, "ok_no_hours", FALSE)
                      /\ UNCHANGED <<now, driver_salaries, driver_accounts, dbVars, convVars, sqVars, salary_conv, threads, mongo>>
                 ELSE LET hours == TotalSeconds(driver_logs[u][today].in.t, now)
                          sal1 == AccrueHours(driver_salaries, u, hours, now)
                      IN  \E W \in Outcomes(LogKeys(logs1)), S \in Outcomes(DOMAIN sal1) :
                             /\ driver_logs' = logs1
                             /\ driver_salaries' = sal1
                             /\ db_logs' = SaveDriverLogs(db_logs, logs1, W)
                             /\ db_salaries' = SaveDriverSalaries(db_salaries, sal1, S)
                             /\ reply' = [Reply("clockout", u, "ok",
                                                W = LogKeys(logs1) /\ S = DOMAIN sal1)
                                            EXCEPT !.hours = hours,
                                                   !.shown = FormatDuration(hours)]
                             /\ UNCHANGED <<now, driver_accounts, db_accounts, convVars, sqVars, salary_conv, threads, mongo>>

Next ==
    \/ Tick
    \/ \E u \in Drivers : clockin(u)
    \/ \E u \in Drivers : clockout(u)
    \/ \E u \in Drivers : offday(u)

Spec == Init /\ [][Next]_vars

(***************************************************************************)
(* The attendance handlers under a wall clock that is not monotonic:       *)
(* datetime.now(tz) reads the system clock, which an operator or a time    *)
(* synchronisation step can set back between two updates.                  *)
(***************************************************************************)
\* The wall clock is set back between two updates.
ClockSetBack ==
    /\ now > StartTime
    /\ now' = now - 1
    /\ UNCHANGED <<memVars, dbVars, reply, convVars, sqVars, salary_conv, threads, mongo>>

\* The driver who sends the commands while the clock is being set back.
SkewDrivers == {1}

NextSkew ==
    \/ Tick
    \/ ClockSetBack
    \/ \E u \in SkewDrivers : clockin(u)
    \/ \E u \in SkewDrivers : clockout(u)
    \/ \E u \in SkewDrivers : offday(u)

SpecSkew == Init /\ [][NextSkew]_vars

(***************************************************************************)
(* db_mongo: the account collection.                                       *)
(***************************************************************************)
NewAccount == [balance |-> 0, claims |-> <<>>, topup_history |-> <<>>]

\* driver_accounts.setdefault(uid, {"balance": 0.0, "claims": [], "topup_history": []})
WithAccount(accounts, u) ==
    IF u \in DOMAIN accounts THEN accounts ELSE Put(accounts, u, NewAccount)

\* The document of a user as get_driver_accounts reads it (doc.get with defaults).
DocOf(store, u) == IF u \in DOMAIN store THEN store[u] ELSE NewAccount

RECURSIVE EntriesOf(_, _)
EntriesOf(accounts, U) ==
    IF U = {} THEN 0
    ELSE LET u == CHOOSE x \in U : TRUE
         IN  Len(accounts[u].claims) + Len(accounts[u].topup_history)
             + EntriesOf(accounts, U \ {u})

\* The number of claims and top-ups of all accounts together.
Entries(accounts) == EntriesOf(accounts, DOMAIN accounts)

AddClaimPushOnly(store, u, claim_data) ==
    Put(store, u, [DocOf(store, u) EXCEPT !.claims = Append(@, claim_data)])

\* add_claim's update_one: $push claims and $inc balance by -amount, upsert.
AddClaim(store, u, claim_data) ==
    Put(store, u, [DocOf(store, u) EXCEPT !.claims = Append(@, claim_data),
                                          !.balance = @ - claim_data.amount])

\* add_topup's update_one: $push topup_history and $inc balance by amount, upsert.
AddTopup(store, u, topup_data) ==
    Put(store, u, [DocOf(store, u) EXCEPT !.topup_history = Append(@, topup_data),
                                          !.balance = @ + topup_data.amount])

\* save_driver_accounts(accounts) having completed the update_one calls of the users W.
SaveDriverAccounts(store, accounts, W) ==
    [u \in DOMAIN store \cup W |-> IF u \in W THEN accounts[u] ELSE store[u]]

(***************************************************************************)
(* What the users type.                                                    *)
(***************************************************************************)
AmountTexts == {"abc", "-50", "0", "50", "100"}

\* float(text) raises ValueError
NotANumber(text) == text = "abc"

\* float(text), in cents
FloatOf(text) ==
    CASE text = "-50" -> -5000
      [] text = "0" -> 0
      [] text = "50" -> 5000
      [] text = "100" -> 10000
      [] text = "1760" -> 176000

TypeTexts == {"toll", "Other"}
DescriptionTexts == {"parking"}

\* text.lower()
Lower(text) == IF text = "Other" THEN "other" ELSE text

SelectionTexts == {"none", "User 0 (0)", "@d1 (1)", "@d2 (2)"}

\* int(selected_text.split('(')[-1].split(')')[0]) raises
NotASelection(text) == text = "none"

\* int(selected_text.split('(')[-1].split(')')[0])
UidOf(text) ==
    CASE text = "User 0 (0)" -> 0
      [] text = "@d1 (1)" -> 1
      [] text = "@d2 (2)" -> 2

PhotoIds == {"file1"}

\* The drivers who run the claim conversation in the model.
Claimants == {1}

(***************************************************************************)
(* Dispatch.  The conversation handlers are registered in the order        *)
(* salary, top-up, claim, and an update goes to the first handler that     *)
(* accepts it.  A text message is accepted by every state of the salary    *)
(* and top-up conversations and by the first three states of the claim     *)
(* conversation; a photo only by the proof state of the claim              *)
(* conversation; a command by the conversation it starts, and /cancel by   *)
(* every conversation the user is in.                                      *)
(***************************************************************************)
\* No conversation registered before conv takes the text message of user u.
NoEarlierConversation(u, conv) ==
    CASE conv = "salary" -> TRUE
      [] conv = "topup" -> salary_conv[u] = "END"
      [] conv = "claim" -> salary_conv[u] = "END" /\ topup_conv[u] = "END"

(***************************************************************************)
(* The claim conversation of clock_bot.                                    *)
(***************************************************************************)
\* /claim
claim_start(u) ==
    /\ claim_conv[u] = "END"
    /\ claim_conv' = [claim_conv EXCEPT ![u] = "CLAIM_TYPE"]
    /\ reply' = Reply("claim_start", u, "select_type", FALSE)
    /\ UNCHANGED <<now, memVars, dbVars, claim_state, topup_conv, user_data, sqVars, salary_conv, threads, mongo>>

claim_type(u, text) ==
    /\ NoEarlierConversation(u, "claim")
    /\ claim_conv[u] = "CLAIM_TYPE"
    /\ claim_state' = Put(claim_state, u, [type |-> Lower(text), amount |-> 0, has_amount |-> FALSE])
    /\ claim_conv' = [claim_conv EXCEPT ![u] =
                         IF Lower(text) = "other" THEN "CLAIM_OTHER_TYPE" ELSE "CLAIM_AMOUNT"]
    /\ reply' = Reply("claim_type", u,
                      IF Lower(text) = "other" THEN "enter_description" ELSE "enter_amount", FALSE)
    /\ UNCHANGED <<now, memVars, dbVars, topup_conv, user_data, sqVars, salary_conv, threads, mongo>>

claim_other_type(u, text) ==
    /\ NoEarlierConversation(u, "claim")
    /\ claim_conv[u] = "CLAIM_OTHER_TYPE"
    /\ IF u \notin DOMAIN claim_state
       THEN \* KeyError: the error handler replies and the state stays.
            /\ reply' = Reply("claim_other_type", u, "error", FALSE)
            /\ UNCHANGED <<claim_state, claim_conv, mongo>>
       ELSE /\ claim_state' = [claim_state EXCEPT ![u].type = text]
            /\ claim_conv' = [claim_conv EXCEPT ![u] = "CLAIM_AMOUNT"]
            /\ reply' = Reply("claim_other_type", u, "enter_amount", FALSE)
    /\ UNCHANGED <<now, memVars, dbVars, topup_conv, user_data, sqVars, salary_conv, threads, mongo>>

claim_amount(u, text) ==
    /\ NoEarlierConversation(u, "claim")
    /\ claim_conv[u] = "CLAIM_AMOUNT"
    /\ IF NotANumber(text)
       THEN /\ reply' = Reply("claim_amount", u, "invalid_number", FALSE)
            /\ UNCHANGED <<claim_state, claim_conv, mongo>>
       ELSE IF u \notin DOMAIN claim_state
       THEN \* KeyError, caught by 'except Exception'.
            /\ reply' = Reply("claim_amount", u, "error", FALSE)
            /\ UNCHANGED <<claim_state, claim_conv, mongo>>
       ELSE /\ claim_state' = [claim_state EXCEPT ![u].amount = FloatOf(text),
                                                  ![u].has_amount = TRUE]
            /\ claim_conv' = [claim_conv EXCEPT ![u] = "CLAIM_PROOF"]
            /\ reply' = Reply("claim_amount", u, "send_proof", FALSE)
    /\ UNCHANGED <<now, memVars, dbVars, topup_conv, user_data, sqVars, salary_conv, threads, mongo>>

\* The dictionary without the key k ("del d[k]" under "if k in d").
Without(d, k) == [x \in DOMAIN d \ {k} |-> d[x]]

ClaimEntryNoProof(draft, date, file_id) ==
    [amount |-> draft.amount, type |-> draft.type, date |-> date, photo |-> ""]

\* The entry claim_proof builds from the draft in claim_state, the date and the
\* file_id of the photo.
ClaimEntry(draft, date, file_id) ==
    [amount |-> draft.amount, type |-> draft.type, date |-> date, photo |-> file_id]

\* The photo message that ends the claim conversation.  add_claim catches its
\* own exceptions and returns False when nothing was written; claim_proof does
\* not look at the value it returns.
claim_proof(u, file_id) ==
    /\ claim_conv[u] = "CLAIM_PROOF"
    /\ u \in DOMAIN claim_state /\ claim_state[u].has_amount
    /\ Entries(driver_accounts) < MaxHist /\ Entries(db_accounts) < MaxHist
    /\ LET entry == ClaimEntry(claim_state[u], DateOf(now), file_id)
           acc0 == WithAccount(driver_accounts, u)
       IN  \E written \in BOOLEAN :
              /\ db_accounts' = IF written THEN AddClaim(db_accounts, u, entry)
                                ELSE db_accounts
              /\ driver_accounts' =
                    [acc0 EXCEPT ![u].claims = Append(@, entry),
                                 ![u].balance = @ - entry.amount]
              /\ reply' = [Reply("claim_proof", u, "ok", written)
                             EXCEPT !.amount = entry.amount]
    /\ claim_state' = Without(claim_state, u)
    /\ claim_conv' = [claim_conv EXCEPT ![u] = "END"]
    /\ UNCHANGED <<now, driver_logs, driver_salaries, db_logs, db_salaries,
                   topup_conv, user_data, sqVars, salary_conv, threads, mongo>>

\* /cancel: the fallback of the first conversation the user is in, in the order
\* the conversation handlers are registered.  The function clears the state of
\* every conversation, and the conversation that handled the command ends.
cancel(u) ==
    /\ salary_conv[u] # "END" \/ topup_conv[u] # "END" \/ claim_conv[u] # "END"
    /\ claim_state' = Without(claim_state, u)
    /\ user_data' = [user_data EXCEPT
                        ![u] = Without(Without(@, "topup_uid"), "salary_driver_id")]
    /\ IF salary_conv[u] # "END"
       THEN /\ salary_conv' = [salary_conv EXCEPT ![u] = "END"]
            /\ UNCHANGED <<topup_conv, claim_conv, mongo>>
       ELSE IF topup_conv[u] # "END"
       THEN /\ topup_conv' = [topup_conv EXCEPT ![u] = "END"]
            /\ UNCHANGED <<salary_conv, claim_conv, mongo>>
       ELSE /\ claim_conv' = [claim_conv EXCEPT ![u] = "END"]
            /\ UNCHANGED <<salary_conv, topup_conv, mongo>>
    /\ reply' = Reply("cancel", u, "cancelled", FALSE)
    /\ UNCHANGED <<now, memVars, dbVars, sqVars, threads, mongo>>

(***************************************************************************)
(* The top-up conversation of clock_bot.                                   *)
(***************************************************************************)
\* /topup
\* /topup without the check of the caller.
topup_start_unchecked(u) ==
    /\ topup_conv[u] = "END"
    /\ IF DOMAIN driver_accounts = {}
       THEN /\ reply' = Reply("topup_start", u, "no_drivers", FALSE)
            /\ UNCHANGED topup_conv
       ELSE /\ reply' = Reply("topup_start", u, "select_driver", FALSE)
            /\ topup_conv' = [topup_conv EXCEPT ![u] = "TOPUP_USER"]
    /\ UNCHANGED <<now, memVars, dbVars, claim_state, claim_conv, user_data, sqVars, salary_conv, threads, mongo>>

\* /topup
topup_start(u) ==
    /\ topup_conv[u] = "END"
    /\ IF u \notin ADMIN_IDS
       THEN /\ reply' = Reply("topup_start", u, "no_permission", FALSE)
            /\ UNCHANGED topup_conv
       ELSE IF DOMAIN driver_accounts = {}
       THEN /\ reply' = Reply("topup_start", u, "no_drivers", FALSE)
            /\ UNCHANGED topup_conv
       ELSE /\ reply' = Reply("topup_start", u, "select_driver", FALSE)
            /\ topup_conv' = [topup_conv EXCEPT ![u] = "TOPUP_USER"]
    /\ UNCHANGED <<now, memVars, dbVars, claim_state, claim_conv, user_data, sqVars, salary_conv, threads, mongo>>

topup_user(u, text) ==
    /\ NoEarlierConversation(u, "topup")
    /\ topup_conv[u] = "TOPUP_USER"
    /\ IF NotASelection(text)
       THEN /\ reply' = Reply("topup_user", u, "invalid_selection", FALSE)
            /\ UNCHANGED <<topup_conv, user_data, mongo>>
       ELSE /\ user_data' = [user_data EXCEPT ![u] = Put(@, "topup_uid", UidOf(text))]
            /\ topup_conv' = [topup_conv EXCEPT ![u] = "TOPUP_AMOUNT"]
            /\ reply' = Reply("topup_user", u, "enter_amount", FALSE)
    /\ UNCHANGED <<now, memVars, dbVars, claim_state, claim_conv, sqVars, salary_conv, threads, mongo>>

\* The amount message that ends the top-up conversation.  add_topup catches its
\* own exceptions and returns False when nothing was written; topup_amount
\* does not look at the value it returns.
topup_amount(u, text) ==
    /\ NoEarlierConversation(u, "topup")
    /\ topup_conv[u] = "TOPUP_AMOUNT"
    /\ IF NotANumber(text)
       THEN /\ reply' = Reply("topup_amount", u, "invalid_number", FALSE)
            /\ UNCHANGED <<topup_conv, user_data, driver_accounts, db_accounts, mongo>>
       ELSE IF "topup_uid" \notin DOMAIN user_data[u] \/ user_data[u]["topup_uid"] = 0
       THEN /\ reply' = Reply("topup_amount", u, "no_user_selected", FALSE)
            /\ topup_conv' = [topup_conv EXCEPT ![u] = "END"]
            /\ UNCHANGED <<user_data, driver_accounts, db_accounts, mongo>>
       ELSE LET uid == user_data[u]["topup_uid"]
                acc0 == WithAccount(driver_accounts, uid)
                topup_record == [date |-> DateOf(now), amount |-> FloatOf(text), admin |-> u]
            IN  /\ Entries(driver_accounts) < MaxHist /\ Entries(db_accounts) < MaxHist
                /\ \E written \in BOOLEAN :
                      /\ db_accounts' = IF written
                                        THEN AddTopup(db_accounts, uid, topup_record)
                                        ELSE db_accounts
                      /\ driver_accounts' =
                            [acc0 EXCEPT ![uid].balance = @ + topup_record.amount,
                                         ![uid].topup_history = Append(@, topup_record)]
                      /\ reply' = [Reply("topup_amount", uid, "ok", written)
                                     EXCEPT !.amount = topup_record.amount]
                /\ user_data' = [user_data EXCEPT ![u] = Without(@, "topup_uid")]
                /\ topup_conv' = [topup_conv EXCEPT ![u] = "END"]
    /\ UNCHANGED <<now, driver_logs, driver_salaries, db_logs, db_salaries,
                   claim_state, claim_conv, sqVars, salary_conv, threads, mongo>>

(***************************************************************************)
(* The salary conversation of clock_bot.                                   *)
(***************************************************************************)
SalaryTexts == {"abc", "0", "1760"}

\* /salary
salary_start(u) ==
    /\ salary_conv[u] = "END"
    /\ IF u \notin ADMIN_IDS
       THEN /\ reply' = Reply("salary_start", u, "no_permission", FALSE)
            /\ UNCHANGED salary_conv
       ELSE IF DOMAIN driver_accounts = {}
       THEN /\ reply' = Reply("salary_start", u, "no_drivers", FALSE)
            /\ UNCHANGED salary_conv
       ELSE /\ reply' = Reply("salary_start", u, "select_driver", FALSE)
            /\ salary_conv' = [salary_conv EXCEPT ![u] = "SALARY_SELECT_DRIVER"]
    /\ UNCHANGED <<now, memVars, dbVars, convVars, sqVars, threads, mongo>>

salary_select_driver(u, text) ==
    /\ salary_conv[u] = "SALARY_SELECT_DRIVER"
    /\ IF NotASelection(text)
       THEN /\ reply' = Reply("salary_select_driver", u, "invalid_selection", FALSE)
            /\ UNCHANGED <<salary_conv, user_data, mongo>>
       ELSE /\ user_data' = [user_data EXCEPT ![u] = Put(@, "salary_driver_id", UidOf(text))]
            /\ salary_conv' = [salary_conv EXCEPT ![u] = "SALARY_ENTER_AMOUNT"]
            /\ reply' = Reply("salary_select_driver", u, "enter_amount", FALSE)
    /\ UNCHANGED <<now, memVars, dbVars, claim_state, claim_conv, topup_conv, sqVars, threads, mongo>>

\* driver_salaries.setdefault(driver_id, {"total_hours": 0}) followed by the two
\* assignments of salary_enter_amount.
SetSalary(salaries, d, new_salary, stamp) ==
    Put(salaries, d,
        [monthly_salary |-> new_salary,
         total_hours |-> IF d \in DOMAIN salaries THEN salaries[d].total_hours ELSE 0,
         last_updated |-> TS(stamp)])

\* The amount message that ends the salary conversation.
salary_enter_amount(u, text) ==
    /\ salary_conv[u] = "SALARY_ENTER_AMOUNT"
    /\ IF NotANumber(text)
       THEN /\ reply' = Reply("salary_enter_amount", u, "invalid_number", FALSE)
            /\ UNCHANGED <<salary_conv, user_data, driver_salaries, db_salaries, mongo>>
       ELSE IF \/ "salary_driver_id" \notin DOMAIN user_data[u]
               \/ user_data[u]["salary_driver_id"] = 0
       THEN /\ reply' = Reply("salary_enter_amount", u, "no_driver_selected", FALSE)
            /\ salary_conv' = [salary_conv EXCEPT ![u] = "END"]
            /\ UNCHANGED <<user_data, driver_salaries, db_salaries, mongo>>
       ELSE LET driver_id == user_data[u]["salary_driver_id"]
                sal1 == SetSalary(driver_salaries, driver_id, FloatOf(text), now)
            IN  /\ \E S \in Outcomes(DOMAIN sal1) :
                      /\ driver_salaries' = sal1
                      /\ db_salaries' = SaveDriverSalaries(db_salaries, sal1, S)
                      /\ reply' = [Reply("salary_enter_amount", driver_id, "ok",
                                         S = DOMAIN sal1)
                                     EXCEPT !.amount = FloatOf(text)]
                /\ user_data' = [user_data EXCEPT ![u] = Without(@, "salary_driver_id")]
                /\ salary_conv' = [salary_conv EXCEPT ![u] = "END"]
    /\ UNCHANGED <<now, driver_logs, driver_accounts, db_logs, db_accounts,
                   claim_state, claim_conv, topup_conv, sqVars, threads, mongo>>

(***************************************************************************)
(* The hourly rate.  A monthly salary handed to calculate_hourly_rate is a *)
(* number (in cents), None, or a value float() rejects.                    *)
(***************************************************************************)
Num(v) == [kind |-> "num", v |-> v]
None == [kind |-> "None", v |-> 0]
NotNumeric == [kind |-> "str", v |-> 0]

\* n / d rounded to the nearest integer: round(x, 2) of an amount, in cents.
\* The inputs of the model have no ties.
Round(n, d) == IF n >= 0 THEN (2 * n + d) \div (2 * d) ELSE -((2 * (-n) + d) \div (2 * d))

Truncate(n, d) == IF n >= 0 THEN n \div d ELSE -((-n) \div d)

calculate_hourly_rate_truncating(monthly_salary) ==
    IF monthly_salary.kind = "num"
    THEN Truncate(monthly_salary.v, WORKING_DAYS_PER_MONTH * WORKING_HOURS_PER_DAY)
    ELSE DEFAULT_HOURLY_RATE

\* float(monthly_salary) raises for None and for text that is not a number, and
\* the bare except returns the default; every number is divided and rounded.
calculate_hourly_rate(monthly_salary) ==
    IF monthly_salary.kind = "num"
    THEN Round(monthly_salary.v, WORKING_DAYS_PER_MONTH * WORKING_HOURS_PER_DAY)
    ELSE DEFAULT_HOURLY_RATE

get_driver_hourly_rate_default(salaries, driver_id) == DEFAULT_HOURLY_RATE

get_driver_hourly_rate(salaries, driver_id) ==
    IF driver_id \in DOMAIN salaries /\ "monthly_salary" \in DOMAIN salaries[driver_id]
    THEN calculate_hourly_rate(Num(salaries[driver_id].monthly_salary))
    ELSE DEFAULT_HOURLY_RATE

\* The summary section of the report of a driver: the hourly rate it prints.
generate_driver_pdf(driver_id) ==
    /\ reply' = [Reply("generate_driver_pdf", driver_id, "ok", FALSE)
                   EXCEPT !.amount = get_driver_hourly_rate(driver_salaries, driver_id)]
    /\ UNCHANGED <<now, memVars, dbVars, convVars, sqVars, salary_conv, threads, mongo>>

(***************************************************************************)
(* /balance and /migrate.                                                  *)
(***************************************************************************)
balance_setdefault(u) ==
    /\ driver_accounts' = WithAccount(driver_accounts, u)
    /\ reply' = [Reply("balance", u, "ok", FALSE)
                   EXCEPT !.amount = WithAccount(driver_accounts, u)[u].balance]
    /\ UNCHANGED <<now, driver_logs, driver_salaries, dbVars, convVars, sqVars, salary_conv, threads, mongo>>

\* /balance
balance(u) ==
    /\ reply' = [Reply("balance", u, "ok", FALSE)
                   EXCEPT !.amount = IF u \in DOMAIN driver_accounts
                                     THEN driver_accounts[u].balance ELSE 0]
    /\ UNCHANGED <<now, memVars, dbVars, convVars, sqVars, salary_conv, threads, mongo>>

\* /migrate
migrate_data(u) ==
    IF u \notin ADMIN_IDS
    THEN /\ reply' = Reply("migrate", u, "no_permission", FALSE)
         /\ UNCHANGED <<now, memVars, dbVars, convVars, sqVars, salary_conv, threads, mongo>>
    ELSE \E L \in Outcomes(LogKeys(driver_logs)), S \in Outcomes(DOMAIN driver_salaries),
            A \in Outcomes(DOMAIN driver_accounts) :
            /\ db_logs' = SaveDriverLogs(db_logs, driver_logs, L)
            /\ db_salaries' = SaveDriverSalaries(db_salaries, driver_salaries, S)
            /\ db_accounts' = SaveDriverAccounts(db_accounts, driver_accounts, A)
            /\ reply' = Reply("migrate", u, "ok",
                              /\ L = LogKeys(driver_logs)
                              /\ S = DOMAIN driver_salaries
                              /\ A = DOMAIN driver_accounts)
            /\ UNCHANGED <<now, memVars, convVars, sqVars, salary_conv, threads, mongo>>

NextLedger ==
    \/ \E u \in Claimants : claim_start(u)
    \/ \E u \in Claimants, text \in TypeTexts : claim_type(u, text)
    \/ \E u \in Claimants, text \in DescriptionTexts : claim_other_type(u, text)
    \/ \E u \in Claimants, text \in {"abc", "-50", "50"} : claim_amount(u, text)
    \/ \E u \in Claimants, file_id \in PhotoIds : claim_proof(u, file_id)
    \/ \E u \in Claimants \cup ADMIN_IDS : cancel(u)
    \/ \E u \in ADMIN_IDS : topup_start(u)
    \/ \E u \in ADMIN_IDS, text \in SelectionTexts : topup_user(u, text)
    \/ \E u \in ADMIN_IDS, text \in {"abc", "-50", "100"} : topup_amount(u, text)
    \/ \E u \in Drivers : balance(u)
    \/ \E u \in ADMIN_IDS : migrate_data(u)

SpecLedger == Init /\ [][NextLedger]_vars

(***************************************************************************)
(* Salary settings: one driver who clocks and claims, and the admin who    *)
(* sets monthly salaries and prints reports.                               *)
(***************************************************************************)
SalariedDrivers == {1}

NextSalary ==
    \/ \E u \in SalariedDrivers : clockin(u)
    \/ \E u \in SalariedDrivers : clockout(u)
    \/ \E u \in SalariedDrivers : claim_start(u)
    \/ \E u \in SalariedDrivers : claim_type(u, "toll")
    \/ \E u \in SalariedDrivers : claim_amount(u, "50")
    \/ \E u \in SalariedDrivers, f \in PhotoIds : claim_proof(u, f)
    \/ \E u \in SalariedDrivers \cup ADMIN_IDS : salary_start(u)
    \/ \E text \in SelectionTexts : salary_select_driver(ADMIN_ID, text)
    \/ \E text \in SalaryTexts : salary_enter_amount(ADMIN_ID, text)
    \/ cancel(ADMIN_ID)
    \/ \E u \in Drivers : generate_driver_pdf(u)

SpecSalary == Init /\ [][NextSalary]_vars

\* /export: the three dictionaries are written to temporary files and sent to
\* the admin.
export_data(u) ==
    /\ reply' = Reply("export", u, IF u \in ADMIN_IDS THEN "ok" ELSE "no_permission", FALSE)
    /\ UNCHANGED <<now, memVars, dbVars, convVars, sqVars, salary_conv, threads, mongo>>

(***************************************************************************)
(* The admin commands, sent by the admin and by a driver.                  *)
(***************************************************************************)
Callers == Claimants \cup ADMIN_IDS

NextAdmin ==
    \/ \E u \in Claimants : claim_start(u)
    \/ \E u \in Claimants : claim_type(u, "toll")
    \/ \E u \in Claimants : claim_amount(u, "50")
    \/ \E u \in Claimants, file_id \in PhotoIds : claim_proof(u, file_id)
    \/ \E u \in Callers : topup_start(u)
    \/ \E u \in Callers : topup_user(u, "@d1 (1)")
    \/ \E u \in Callers : topup_amount(u, "100")
    \/ \E u \in Callers : salary_start(u)
    \/ \E u \in Callers : salary_select_driver(u, "@d1 (1)")
    \/ \E u \in Callers : salary_enter_amount(u, "1760")
    \/ \E u \in Callers : migrate_data(u)
    \/ \E u \in Callers : export_data(u)

SpecAdmin == Init /\ [][NextAdmin]_vars

(***************************************************************************)
(* One user, the admin, in the claim and the top-up conversation at once.  *)
(***************************************************************************)
NextCancel ==
    \/ claim_start(ADMIN_ID)
    \/ \E text \in TypeTexts : claim_type(ADMIN_ID, text)
    \/ \E text \in DescriptionTexts : claim_other_type(ADMIN_ID, text)
    \/ claim_amount(ADMIN_ID, "50")
    \/ \E file_id \in PhotoIds : claim_proof(ADMIN_ID, file_id)
    \/ topup_start(ADMIN_ID)
    \/ \E text \in {"none", "@d1 (1)"} : topup_user(ADMIN_ID, text)
    \/ topup_amount(ADMIN_ID, "100")
    \/ cancel(ADMIN_ID)

SpecCancel == Init /\ [][NextCancel]_vars

(***************************************************************************)
(* db_mongo.create_mongo_client: the connection to the store, with retry.  *)
(***************************************************************************)
\* time.sleep(delay) between two attempts, with the delay doubled afterwards;
\* this variant keeps the delay.
create_mongo_client_sleep_constant ==
    /\ mongo.pc = "sleep"
    /\ mongo' = [mongo EXCEPT !.pc = "connect",
                              !.slept = Append(@, mongo.delay),
                              !.attempt = @ + 1]
    /\ UNCHANGED <<now, memVars, dbVars, reply, convVars, sqVars, salary_conv, threads>>

\* One pass of the body of the loop up to the return or the sleep: the attempt
\* and the except clause its outcome selects.
create_mongo_client_connect(outcome) ==
    /\ mongo.pc = "connect"
    /\ mongo.attempt < retries
    /\ LET made == [mongo EXCEPT !.attempts = Append(@, outcome)]
       IN  mongo' =
             IF outcome = "connected"
             THEN [made EXCEPT !.pc = "returned", !.returned = "client"]
             ELSE IF outcome \in ConnectionErrors
             THEN IF mongo.attempt < retries - 1
                  THEN [made EXCEPT !.pc = "sleep"]
                  ELSE [made EXCEPT !.pc = "returned", !.returned = "None"]
             ELSE [made EXCEPT !.pc = "returned", !.returned = "None"]
    /\ UNCHANGED <<now, memVars, dbVars, reply, convVars, sqVars, salary_conv, threads>>

\* time.sleep(delay); delay *= 2; continue.
create_mongo_client_sleep ==
    /\ mongo.pc = "sleep"
    /\ mongo' = [mongo EXCEPT !.pc = "connect",
                              !.slept = Append(@, mongo.delay),
                              !.delay = @ * 2,
                              !.attempt = @ + 1]
    /\ UNCHANGED <<now, memVars, dbVars, reply, convVars, sqVars, salary_conv, threads>>

NextConnect ==
    \/ \E outcome \in AttemptOutcomes : create_mongo_client_connect(outcome)
    \/ create_mongo_client_sleep

\* An attempt returns or raises within its timeouts and a sleep ends, so each
\* step of the loop that can be taken is taken.
SpecConnect ==
    /\ Init /\ [][NextConnect]_vars
    /\ WF_vars(\E outcome \in AttemptOutcomes : create_mongo_client_connect(outcome))
    /\ WF_vars(create_mongo_client_sleep)

(***************************************************************************)
(* Restart of the process: the module is executed again.  The dictionaries *)
(* are loaded from the store by the three get_ functions, each of which    *)
(* returns an empty dictionary when it has no connection or its query      *)
(* raises; the conversation states start empty.                            *)
(***************************************************************************)
\* get_driver_logs: the documents of the collection as a dictionary by user
\* and date.
GetDriverLogs(store) ==
    [u \in {k[1] : k \in DOMAIN store} |->
        [d \in {k[2] : k \in {x \in DOMAIN store : x[1] = u}} |->
            [in |-> store[<<u, d>>].clock_in, out |-> store[<<u, d>>].clock_out]]]

Restart ==
    /\ \A u \in DOMAIN db_salaries : db_salaries[u].total_hours < MaxAccrued * TickSec
    /\ \E okL, okS, okA \in BOOLEAN :
          /\ driver_logs' = IF okL THEN GetDriverLogs(db_logs) ELSE EmptyDict
          /\ driver_salaries' = IF okS THEN db_salaries ELSE EmptyDict
          /\ driver_accounts' = IF okA THEN db_accounts ELSE EmptyDict
          /\ reply' = Reply("restart", 0, IF okL /\ okS /\ okA THEN "loaded" ELSE "load_failed",
                            FALSE)
    /\ claim_state' = EmptyDict
    /\ claim_conv' = [u \in Users |-> "END"]
    /\ topup_conv' = [u \in Users |-> "END"]
    /\ salary_conv' = [u \in Users |-> "END"]
    /\ user_data' = [u \in Users |-> EmptyDict]
    /\ UNCHANGED <<now, dbVars, sqVars, threads, mongo>>

NextRestart ==
    \/ \E u \in Claimants : clockin(u)
    \/ \E u \in Claimants : clockout(u)
    \/ \E u \in Claimants : claim_start(u)
    \/ \E u \in Claimants : claim_type(u, "toll")
    \/ \E u \in Claimants : claim_amount(u, "50")
    \/ \E u \in Claimants, file_id \in PhotoIds : claim_proof(u, file_id)
    \/ \E u \in ADMIN_IDS : migrate_data(u)
    \/ Restart

SpecRestart == Init /\ [][NextRestart]_vars

(***************************************************************************)
(* Handlers served by several request threads of one process.  webhook     *)
(* calls dispatcher.process_update in the thread of the request and no     *)
(* handler takes a lock, so the statements of two handler executions       *)
(* interleave.  An augmented assignment d[k] += v reads d[k], adds, and    *)
(* stores d[k]: another thread can run between the read and the store.     *)
(* Each action below is one uninterrupted stretch of a handler; the record *)
(* threads[t] holds the local variables of the execution of thread t.      *)
(***************************************************************************)
\* clockout, from its entry to the end of its three checks.
clockout_check(t, u) ==
    /\ threads[t].pc = "idle"
    /\ LET today == DateOf(now)
       IN  IF NoRecordToday(driver_logs, u, today)
           THEN /\ reply' = Reply("clockout", u, "not_clocked_in", FALSE)
                /\ UNCHANGED threads
           ELSE IF AlreadyClockedOut(driver_logs, u, today)
           THEN /\ reply' = Reply("clockout", u, "already_clocked_out", FALSE)
                /\ UNCHANGED threads
           ELSE IF IsOffDay(driver_logs, u, today)
           THEN /\ reply' = Reply("clockout", u, "rest_day", FALSE)
                /\ UNCHANGED threads
           ELSE /\ threads' = [threads EXCEPT ![t] =
                                  [Idle EXCEPT !.pc = "clockout_write", !.caller = u,
                                               !.user = u, !.today = today, !.stamp = now]]
                /\ UNCHANGED reply
    /\ UNCHANGED <<now, memVars, dbVars, convVars, sqVars, salary_conv, mongo>>

\* clockout: 'out' is set, the hours are computed, the salary record is
\* created when absent and its total_hours is read.
clockout_write(t) ==
    /\ threads[t].pc = "clockout_write"
    /\ LET u == threads[t].user
           today == threads[t].today
           stamp == threads[t].stamp
           clock_in == driver_logs[u][today].in
           hours == TotalSeconds(clock_in.t, stamp)
           sal0 == AccrueHours(driver_salaries, u, 0, stamp)
       IN  /\ driver_logs' = [driver_logs EXCEPT ![u][today].out = TS(stamp)]
           /\ IF ~IsReal(clock_in)
              THEN /\ reply' = Reply("clockout", u, "ok_no_hours", FALSE)
                   /\ threads' = [threads EXCEPT ![t] = Idle]
                   /\ UNCHANGED driver_salaries
              ELSE /\ driver_salaries' =
                         IF u \in DOMAIN driver_salaries THEN driver_salaries
                         ELSE [sal0 EXCEPT ![u].last_updated = NA]
                   /\ threads' = [threads EXCEPT ![t].pc = "clockout_accrue",
                                                 ![t].hours = hours,
                                                 ![t].tmp = sal0[u].total_hours]
                   /\ UNCHANGED reply
    /\ UNCHANGED <<now, driver_accounts, dbVars, convVars, sqVars, salary_conv, mongo>>

\* clockout: the store of total_hours += hours, and last_updated.
clockout_accrue(t) ==
    /\ threads[t].pc = "clockout_accrue"
    /\ driver_salaries' = [driver_salaries EXCEPT
                              ![threads[t].user].total_hours = threads[t].tmp + threads[t].hours,
                              ![threads[t].user].last_updated = TS(threads[t].stamp)]
    /\ threads' = [threads EXCEPT ![t].pc = "clockout_save"]
    /\ UNCHANGED <<now, driver_logs, driver_accounts, dbVars, reply, convVars, sqVars,
                   salary_conv, mongo>>

\* clockout: the two saves and the reply.
clockout_save(t) ==
    /\ threads[t].pc = "clockout_save"
    /\ \E W \in Outcomes(LogKeys(driver_logs)), S \in Outcomes(DOMAIN driver_salaries) :
          /\ db_logs' = SaveDriverLogs(db_logs, driver_logs, W)
          /\ db_salaries' = SaveDriverSalaries(db_salaries, driver_salaries, S)
          /\ reply' = [Reply("clockout", threads[t].user, "ok",
                             W = LogKeys(driver_logs) /\ S = DOMAIN driver_salaries)
                         EXCEPT !.hours = threads[t].hours,
                                !.shown = FormatDuration(threads[t].hours)]
    /\ threads' = [threads EXCEPT ![t] = Idle]
    /\ UNCHANGED <<now, memVars, db_accounts, convVars, sqVars, salary_conv, mongo>>

ClockingDrivers == {1}

NextThreadsClock ==
    \/ Tick
    \/ \E u \in ClockingDrivers : clockin(u)
    \/ \E t \in Threads, u \in ClockingDrivers : clockout_check(t, u)
    \/ \E t \in Threads : clockout_write(t)
    \/ \E t \in Threads : clockout_accrue(t)
    \/ \E t \in Threads : clockout_save(t)

SpecThreadsClock == Init /\ [][NextThreadsClock]_vars

\* No update of the caller is being handled by a thread.
NotInFlight(u) == \A t \in Threads : threads[t].pc = "idle" \/ threads[t].caller # u

\* claim_proof, from its entry to the read of the balance in 'balance -= amount':
\* the entry is built, the account created when absent, add_claim called and
\* the entry appended to the in-memory claims.
claim_proof_push(t, u, file_id) ==
    /\ threads[t].pc = "idle" /\ NotInFlight(u)
    /\ claim_conv[u] = "CLAIM_PROOF"
    /\ u \in DOMAIN claim_state /\ claim_state[u].has_amount
    /\ Entries(driver_accounts) < MaxHist /\ Entries(db_accounts) < MaxHist
    /\ LET entry == ClaimEntry(claim_state[u], DateOf(now), file_id)
           acc0 == WithAccount(driver_accounts, u)
       IN  /\ \E written \in BOOLEAN :
                db_accounts' = IF written THEN AddClaim(db_accounts, u, entry)
                               ELSE db_accounts
           /\ driver_accounts' = [acc0 EXCEPT ![u].claims = Append(@, entry)]
           /\ threads' = [threads EXCEPT ![t] =
                             [Idle EXCEPT !.pc = "claim_proof_balance", !.caller = u,
                                          !.user = u, !.today = DateOf(now),
                                          !.amount = entry.amount,
                                          !.tmp = acc0[u].balance]]
    /\ UNCHANGED <<now, driver_logs, driver_salaries, db_logs, db_salaries, reply,
                   convVars, sqVars, salary_conv, mongo>>

\* claim_proof: the store of 'balance -= amount', the reply and the cleanup.
claim_proof_balance(t) ==
    /\ threads[t].pc = "claim_proof_balance"
    /\ LET u == threads[t].user
       IN  /\ driver_accounts' = [driver_accounts EXCEPT
                                     ![u].balance = threads[t].tmp - threads[t].amount]
           /\ reply' = [Reply("claim_proof", u, "ok", FALSE)
                          EXCEPT !.amount = threads[t].amount]
           /\ claim_state' = Without(claim_state, u)
           /\ claim_conv' = [claim_conv EXCEPT ![u] = "END"]
    /\ threads' = [threads EXCEPT ![t] = Idle]
    /\ UNCHANGED <<now, driver_logs, driver_salaries, dbVars, topup_conv, user_data,
                   sqVars, salary_conv, mongo>>

\* topup_amount with a number and a selected driver, from its entry to the read
\* of the balance in 'balance += amount': the account is created when absent
\* and add_topup called.
topup_amount_push(t, u, text) ==
    /\ threads[t].pc = "idle" /\ NotInFlight(u)
    /\ NoEarlierConversation(u, "topup")
    /\ topup_conv[u] = "TOPUP_AMOUNT"
    /\ ~NotANumber(text)
    /\ "topup_uid" \in DOMAIN user_data[u] /\ user_data[u]["topup_uid"] # 0
    /\ Entries(driver_accounts) < MaxHist /\ Entries(db_accounts) < MaxHist
    /\ LET uid == user_data[u]["topup_uid"]
           acc0 == WithAccount(driver_accounts, uid)
           topup_record == [date |-> DateOf(now), amount |-> FloatOf(text), admin |-> u]
       IN  /\ \E written \in BOOLEAN :
                db_accounts' = IF written THEN AddTopup(db_accounts, uid, topup_record)
                               ELSE db_accounts
           /\ driver_accounts' = acc0
           /\ threads' = [threads EXCEPT ![t] =
                             [Idle EXCEPT !.pc = "topup_amount_balance", !.caller = u,
                                          !.user = uid, !.today = DateOf(now),
                                          !.amount = topup_record.amount,
                                          !.tmp = acc0[uid].balance]]
    /\ UNCHANGED <<now, driver_logs, driver_salaries, db_logs, db_salaries, reply,
                   convVars, sqVars, salary_conv, mongo>>

\* topup_amount: the store of 'balance += amount', the append to the in-memory
\* top-up history, the reply and the cleanup.
topup_amount_balance(t) ==
    /\ threads[t].pc = "topup_amount_balance"
    /\ LET u == threads[t].caller
           uid == threads[t].user
           topup_record == [date |-> threads[t].today, amount |-> threads[t].amount,
                            admin |-> u]
       IN  /\ driver_accounts' = [driver_accounts EXCEPT
                                     ![uid].balance = threads[t].tmp + threads[t].amount,
                                     ![uid].topup_history = Append(@, topup_record)]
           /\ reply' = [Reply("topup_amount", uid, "ok", FALSE)
                          EXCEPT !.amount = threads[t].amount]
           /\ user_data' = [user_data EXCEPT ![u] = Without(@, "topup_uid")]
           /\ topup_conv' = [topup_conv EXCEPT ![u] = "END"]
    /\ threads' = [threads EXCEPT ![t] = Idle]
    /\ UNCHANGED <<now, driver_logs, driver_salaries, dbVars, claim_state, claim_conv,
                   sqVars, salary_conv, mongo>>

NextThreadsLedger ==
    \/ \E u \in Claimants : claim_start(u)
    \/ \E u \in Claimants : claim_type(u, "toll")
    \/ \E u \in Claimants : claim_amount(u, "50")
    \/ \E t \in Threads, u \in Claimants, file_id \in PhotoIds : claim_proof_push(t, u, file_id)
    \/ \E t \in Threads : claim_proof_balance(t)
    \/ \E u \in ADMIN_IDS : topup_start(u)
    \/ \E u \in ADMIN_IDS : topup_user(u, "@d1 (1)")
    \/ \E t \in Threads, u \in ADMIN_IDS : topup_amount_push(t, u, "100")
    \/ \E t \in Threads : topup_amount_balance(t)

SpecThreadsLedger == Init /\ [][NextThreadsLedger]_vars

\* One driver who clocks in and out while time passes and the process restarts.
NextRestartClock ==
    \/ Tick
    \/ \E u \in ClockingDrivers : clockin(u)
    \/ \E u \in ClockingDrivers : clockout(u)
    \/ Restart

SpecRestartClock == Init /\ [][NextRestartClock]_vars

(***************************************************************************)
(* clockin reads the date and the timestamp by two calls of                *)
(* datetime.datetime.now(tz); the wall clock can pass midnight between     *)
(* them.                                                                   *)
(***************************************************************************)
\* clockin: today = datetime.datetime.now(tz).strftime("%Y-%m-%d").
clockin_today(t, u) ==
    /\ threads[t].pc = "idle"
    /\ threads' = [threads EXCEPT ![t] =
                      [Idle EXCEPT !.pc = "clockin_now", !.caller = u, !.user = u,
                                   !.today = DateOf(now)]]
    /\ UNCHANGED <<now, memVars, dbVars, reply, convVars, sqVars, salary_conv, mongo>>

\* clockin, from now = datetime.datetime.now(tz).strftime("%Y-%m-%d %H:%M:%S")
\* to its end.
clockin_now(t) ==
    /\ threads[t].pc = "clockin_now"
    /\ LET u == threads[t].user
           today == threads[t].today
           logs0 == WithUser(driver_logs, u)
       IN  IF AlreadyClockedIn(logs0, u, today)
           THEN /\ driver_logs' = logs0
                /\ reply' = Reply("clockin", u, "already_clocked_in", FALSE)
                /\ UNCHANGED db_logs
           ELSE LET logs1 == Put(logs0, u, Put(logs0[u], today, [in |-> TS(now), out |-> NA]))
                IN  \E W \in Outcomes(LogKeys(logs1)) :
                       /\ driver_logs' = logs1
                       /\ db_logs' = SaveDriverLogs(db_logs, logs1, W)
                       /\ reply' = Reply("clockin", u, "ok", W = LogKeys(logs1))
    /\ threads' = [threads EXCEPT ![t] = Idle]
    /\ UNCHANGED <<now, driver_salaries, driver_accounts, db_salaries, db_accounts,
                   convVars, sqVars, salary_conv, mongo>>

NextMidnight ==
    \/ Tick
    \/ \E t \in Threads, u \in ClockingDrivers : clockin_today(t, u)
    \/ \E t \in Threads : clockin_now(t)
    \/ \E u \in ClockingDrivers : clockout(u)

SpecMidnight == Init /\ [][NextMidnight]_vars

(***************************************************************************)
(* db_utils: the account, claim and top-up tables of the SQLite layer.     *)
(* Every function opens its own connection, commits on success, and on a   *)
(* sqlite3.Error logs and returns; what it had not committed is rolled     *)
(* back when the connection closes.                                        *)
(***************************************************************************)
\* get_account_balance(driver_id)
GetAccountBalance(accounts, d) == IF d \in DOMAIN accounts THEN accounts[d] ELSE 0

\* update_account_balance(driver_id, amount_change): INSERT OR IGNORE of a zero
\* balance, then balance = balance + amount_change, in one transaction.
UpdateAccountBalance(accounts, d, amount_change, ok) ==
    IF ok THEN Put(accounts, d, GetAccountBalance(accounts, d) + amount_change)
    ELSE accounts

\* save_claim: the INSERT is committed first; update_account_balance then runs
\* on a connection of its own.
save_claim(d, date, ctype, amount, photo_file_id) ==
    /\ Len(sq_claims) + Len(sq_topups) < MaxHist
    /\ \E insert_ok \in BOOLEAN, balance_ok \in BOOLEAN :
          IF insert_ok
          THEN /\ sq_claims' = Append(sq_claims,
                                      [driver_id |-> d, date |-> date, type |-> ctype,
                                       amount |-> amount, photo_file_id |-> photo_file_id])
               /\ sq_accounts' = UpdateAccountBalance(sq_accounts, d, -amount, balance_ok)
          ELSE UNCHANGED <<sq_claims, sq_accounts, mongo>>
    /\ UNCHANGED <<now, memVars, dbVars, reply, convVars, salary_conv, threads, sq_topups, sq_logs, sq_salaries, mongo>>

\* save_topup: the INSERT is committed first; update_account_balance then runs
\* on a connection of its own.
save_topup(d, date, amount, admin_id) ==
    /\ Len(sq_claims) + Len(sq_topups) < MaxHist
    /\ \E insert_ok \in BOOLEAN, balance_ok \in BOOLEAN :
          IF insert_ok
          THEN /\ sq_topups' = Append(sq_topups,
                                      [driver_id |-> d, date |-> date, amount |-> amount,
                                       admin_id |-> admin_id])
               /\ sq_accounts' = UpdateAccountBalance(sq_accounts, d, amount, balance_ok)
          ELSE UNCHANGED <<sq_topups, sq_accounts, mongo>>
    /\ UNCHANGED <<now, memVars, dbVars, reply, convVars, salary_conv, threads, sq_claims, sq_logs, sq_salaries, mongo>>

\* Amounts of the claims and top-ups saved through db_utils, in cents.
SqAmounts == {5000, 10000}

NextSql ==
    \/ \E d \in Drivers, t \in {"toll", "petrol"}, a \in SqAmounts, f \in PhotoIds :
          save_claim(d, DateOf(now), t, a, f)
    \/ \E d \in Drivers, a \in SqAmounts, adm \in ADMIN_IDS :
          save_topup(d, DateOf(now), a, adm)

SpecSql == Init /\ [][NextSql]_vars

(***************************************************************************)
(* db_utils: the table clock_logs of the SQLite layer.  Its primary key is *)
(* the AUTOINCREMENT column log_id; (driver_id, date) has an index that is *)
(* not UNIQUE.                                                             *)
(***************************************************************************)
\* A NULL column.
SqlNull == [kind |-> "NULL", t |-> 0]

\* The log_ids of the rows of a driver and date.
LogIds(table, d, date) ==
    {i \in 1..Len(table) : table[i].driver_id = d /\ table[i].date = date}

\* save_clock_in: the row the SELECT finds (fetchone, no ORDER BY) gets the new
\* clock-in time and a NULL clock-out time; without such a row one is inserted.
save_clock_in(d, date, clock_in_time) ==
    /\ \E ok \in BOOLEAN :
          IF ~ok
          THEN UNCHANGED sq_logs
          ELSE IF LogIds(sq_logs, d, date) # {}
          THEN \E i \in LogIds(sq_logs, d, date) :
                  sq_logs' = [sq_logs EXCEPT ![i].clock_in_time = TS(clock_in_time),
                                             ![i].clock_out_time = SqlNull]
          ELSE /\ Len(sq_logs) < MaxRows
               /\ sq_logs' = Append(sq_logs,
                                    [driver_id |-> d, date |-> date,
                                     clock_in_time |-> TS(clock_in_time),
                                     clock_out_time |-> SqlNull])
    /\ UNCHANGED <<now, memVars, dbVars, reply, convVars, salary_conv, threads, sq_claims, sq_topups, sq_accounts, sq_salaries, mongo>>

\* save_clock_out: UPDATE of every row of the driver and date.
save_clock_out(d, date, clock_out_time) ==
    /\ \E ok \in BOOLEAN :
          sq_logs' = IF ok
                     THEN [i \in 1..Len(sq_logs) |->
                              IF i \in LogIds(sq_logs, d, date)
                              THEN [sq_logs[i] EXCEPT !.clock_out_time = TS(clock_out_time)]
                              ELSE sq_logs[i]]
                     ELSE sq_logs
    /\ UNCHANGED <<now, memVars, dbVars, reply, convVars, salary_conv, threads, sq_claims, sq_topups, sq_accounts, sq_salaries, mongo>>

\* save_off_day: INSERT OR REPLACE without a log_id.  No UNIQUE constraint
\* covers (driver_id, date), so nothing is replaced: a row is inserted.
save_off_day(d, date) ==
    /\ \E ok \in BOOLEAN :
          IF ok
          THEN /\ Len(sq_logs) < MaxRows
               /\ sq_logs' = Append(sq_logs,
                                    [driver_id |-> d, date |-> date,
                                     clock_in_time |-> OFF, clock_out_time |-> OFF])
          ELSE UNCHANGED sq_logs
    /\ UNCHANGED <<now, memVars, dbVars, reply, convVars, salary_conv, threads, sq_claims, sq_topups, sq_accounts, sq_salaries, mongo>>

NextSqlLogs ==
    \/ Tick
    \/ \E d \in Drivers : save_clock_in(d, DateOf(now), now)
    \/ \E d \in Drivers : save_clock_out(d, DateOf(now), now)
    \/ \E d \in Drivers : save_off_day(d, DateOf(now))

SpecSqlLogs == Init /\ [][NextSqlLogs]_vars

(***************************************************************************)
(* db_utils: the table salaries of the SQLite layer, one row per driver.   *)
(***************************************************************************)
\* The row of INSERT OR IGNORE INTO salaries (driver_id, total_hours,
\* daily_log_json) VALUES (?, 0.0, '{}').
NewSalaryRow == [monthly_salary |-> SqlNull, total_hours |-> 0, daily_log |-> EmptyDict]

SalaryRow(table, d) == IF d \in DOMAIN table THEN table[d] ELSE NewSalaryRow

\* update_driver_salary: the row is created when absent, total_hours is
\* increased by the increment and daily_log[date] is set; ok is whether the
\* statements and the commit succeeded.
update_driver_salary(d, total_hours_increment, date, hours_worked_today) ==
    /\ SalaryRow(sq_salaries, d).total_hours + total_hours_increment <= MaxAccrued * TickSec
    /\ \E ok \in BOOLEAN :
          sq_salaries' =
              IF ok
              THEN Put(sq_salaries, d,
                       [SalaryRow(sq_salaries, d) EXCEPT
                           !.total_hours = @ + total_hours_increment,
                           !.daily_log = Put(@, date, hours_worked_today)])
              ELSE sq_salaries
    /\ UNCHANGED <<now, memVars, dbVars, reply, convVars, salary_conv, threads,
                   sq_claims, sq_topups, sq_accounts, sq_logs, mongo>>

\* set_monthly_salary: the row is created when absent and its monthly_salary set.
set_monthly_salary(d, monthly_salary) ==
    /\ \E ok \in BOOLEAN :
          sq_salaries' =
              IF ok
              THEN Put(sq_salaries, d,
                       [SalaryRow(sq_salaries, d) EXCEPT !.monthly_salary = Num(monthly_salary)])
              ELSE sq_salaries
    /\ UNCHANGED <<now, memVars, dbVars, reply, convVars, salary_conv, threads,
                   sq_claims, sq_topups, sq_accounts, sq_logs, mongo>>

SqHours == {TickSec, 2 * TickSec}

NextSqlSalary ==
    \/ \E d \in Drivers, date \in 0..DateOf(MaxTime), h \in SqHours :
          update_driver_salary(d, h, date, h)
    \/ \E d \in Drivers : set_monthly_salary(d, 176000)

SpecSqlSalary == Init /\ [][NextSqlSalary]_vars

(***************************************************************************)
(* format_duration applied to durations of whole seconds, as clockout and  *)
(* the report apply it.                                                    *)
(***************************************************************************)
\* The longest duration formatted, in minutes.
MaxMinutes == 125

\* Durations at, just after and just before every minute boundary.
DurationInputs == {m * 60 + r : m \in 0..MaxMinutes, r \in {0, 1, 59}}

format_duration(secs) ==
    /\ reply' = [Reply("format_duration", 0, "ok", FALSE)
                   EXCEPT !.hours = secs, !.shown = FormatDuration(secs)]
    /\ UNCHANGED <<now, memVars, dbVars, convVars, sqVars, salary_conv, threads, mongo>>

NextFormat == \E secs \in DurationInputs : format_duration(secs)

SpecFormat == Init /\ [][NextFormat]_vars

(***************************************************************************)
(* The attendance state of a (driver, date) record.                        *)
(***************************************************************************)
Dates == 0..DateOf(MaxTime)

RecState(logs, u, d) ==
    IF u \notin DOMAIN logs \/ d \notin DOMAIN logs[u] THEN "NOT_STARTED"
    ELSE IF logs[u][d].in = OFF /\ logs[u][d].out = OFF THEN "OFF_DAY"
    ELSE IF IsReal(logs[u][d].in) /\ logs[u][d].out = NA THEN "CLOCKED_IN"
    ELSE IF IsReal(logs[u][d].in) /\ IsReal(logs[u][d].out) THEN "CLOCKED_OUT"
    ELSE "OTHER"

\* The record of key k in a dictionary, as a set that is empty when k is absent.
RecordsOf(dict, k) == IF k \in DOMAIN dict THEN {dict[k]} ELSE {}

\* The persisted attendance record of (driver, date), as a set.
StoredLog(store, u, d) == RecordsOf(store, <<u, d>>)

\* total_hours of a driver, 0 when the driver has no salary record.
TotalHours(salaries, u) == IF u \in DOMAIN salaries THEN salaries[u].total_hours ELSE 0

(***************************************************************************)
(* Attendance state machine: claims C3 to C8 and C10.                      *)
(***************************************************************************)
AllowedTransition(a, b) ==
    \/ a = b
    \/ a = "NOT_STARTED" /\ b \in {"CLOCKED_IN", "OFF_DAY"}
    \/ a = "CLOCKED_IN" /\ b = "CLOCKED_OUT"

\* C3: every step moves the state of every (driver, date) record along
\* NOT_STARTED -> CLOCKED_IN -> CLOCKED_OUT or NOT_STARTED -> OFF_DAY only.
C3_OnlySpecTransitions ==
    [][\A u \in Drivers, d \in Dates :
          AllowedTransition(RecState(driver_logs, u, d), RecState(driver_logs', u, d))]_vars

\* C4: a /clockin of a driver whose record of today already has a real clockIn
\* (clocked in, or clocked in and out) is refused as already clocked in and
\* changes nothing in memory or in the store.
C4_SecondClockInRefused ==
    [][\A u \in Drivers :
          (clockin(u) /\ RecState(driver_logs, u, DateOf(now)) \in {"CLOCKED_IN", "CLOCKED_OUT"})
          => (reply'.result = "already_clocked_in" /\ UNCHANGED <<memVars, dbVars>>)]_vars

\* C4 happens: a clock-in was refused for a driver who had clocked in and out today.
C4_Witness ==
    /\ reply.op = "clockin" /\ reply.result = "already_clocked_in"
    /\ RecState(driver_logs, reply.user, DateOf(now)) = "CLOCKED_OUT"

\* C5: a /clockin on a date marked as off day is refused and the record stays
\* clockIn = OFF, clockOut = OFF.
C5_ClockInOnOffDayRefused ==
    [][\A u \in Drivers :
          (clockin(u) /\ RecState(driver_logs, u, DateOf(now)) = "OFF_DAY")
          => (reply'.result # "ok" /\ RecState(driver_logs', u, DateOf(now)) = "OFF_DAY")]_vars

C8_OffDayAfterClockIn ==
    [][\A u \in Drivers :
          (offday(u) /\ RecState(driver_logs, u, DateOf(now)) \in {"CLOCKED_IN", "CLOCKED_OUT"})
          => (reply'.result = "already_clocked_in" /\ UNCHANGED <<memVars, dbVars>>)]_vars

\* C8 happens: an off-day marking was refused for a driver who is clocked in.
C8_Witness ==
    /\ reply.op = "offday" /\ reply.result = "already_clocked_in"
    /\ RecState(driver_logs, reply.user, DateOf(now)) = "CLOCKED_IN"

\* The duration string the specification asks for, of a non-negative number of seconds.
SpecDuration(secs) ==
    LET m == secs \div 60
    IN  IF m \div 60 > 0 /\ m % 60 > 0
        THEN [form |-> "HourMin", hours_part |-> m \div 60, minutes_part |-> m % 60]
        ELSE IF m \div 60 > 0
        THEN [form |-> "Hour", hours_part |-> m \div 60, minutes_part |-> 0]
        ELSE [form |-> "Min", hours_part |-> 0, minutes_part |-> m]

\* C10: a successful /clockout at T0 + d of a driver clocked in at T0 raises
\* total_hours by exactly d and replies the duration string of d; for
\* d = 2 h 15 min that is 2.25 hours and "2Hour 15Min".
C10_ClockOutAccruesElapsed ==
    [][\A u \in Drivers :
          (clockout(u) /\ reply'.result = "ok")
          => LET d == (now - driver_logs[u][DateOf(now)].in.t) * TickSec
             IN  /\ TotalHours(driver_salaries', u) = TotalHours(driver_salaries, u) + d
                 /\ reply'.shown = SpecDuration(d)
                 /\ (4 * d = 9 * SecPerHour)
                    => reply'.shown = [form |-> "HourMin", hours_part |-> 2,
                                       minutes_part |-> 15]]_vars

\* C10 happens: a clock-out 2 h 15 min after the clock-in has been answered
\* with "2Hour 15Min" and total_hours is 2.25 hours.
C10_Witness ==
    /\ reply.op = "clockout" /\ reply.result = "ok"
    /\ 4 * reply.hours = 9 * SecPerHour
    /\ reply.shown = [form |-> "HourMin", hours_part |-> 2, minutes_part |-> 15]
    /\ TotalHours(driver_salaries, reply.user) = reply.hours

(***************************************************************************)
(* Account ledger: claims C1 and C2; salary record: claim C9.              *)
(***************************************************************************)
RECURSIVE SumAmounts(_)
\* The sum of the amounts of a sequence of entries.
SumAmounts(entries) ==
    IF entries = <<>> THEN 0 ELSE Head(entries).amount + SumAmounts(Tail(entries))

\* The rows of a table that belong to a driver.
RowsOf(table, d) == SelectSeq(table, LAMBDA r : r.driver_id = d)

\* In the MongoDB store every account document has
\* balance = sum(topup_history) - sum(claims).
MongoBalanceMatchesHistory ==
    \A u \in DOMAIN db_accounts :
        db_accounts[u].balance =
            SumAmounts(db_accounts[u].topup_history) - SumAmounts(db_accounts[u].claims)

\* In the SQLite store the balance of every driver is the sum of the topups
\* rows minus the sum of the claims rows of that driver.
SqlBalanceMatchesHistory ==
    \A d \in Drivers :
        GetAccountBalance(sq_accounts, d) =
            SumAmounts(RowsOf(sq_topups, d)) - SumAmounts(RowsOf(sq_claims, d))

\* C1: in every store, after any sequence of claims and top-ups with store
\* failures, the persisted balance of every driver equals the sum of the
\* persisted top-ups minus the sum of the persisted claims.
C1_BalanceMatchesHistory == MongoBalanceMatchesHistory /\ SqlBalanceMatchesHistory

\* C2: when the durable write of a claim or of a top-up did not complete, the
\* handler does not reply success and leaves the in-memory accounts as they were.
C2_StoreFailureReported ==
    [][/\ \A u \in Claimants, f \in PhotoIds :
             (claim_proof(u, f) /\ ~reply'.stored)
             => (reply'.result # "ok" /\ driver_accounts' = driver_accounts)
       /\ \A u \in ADMIN_IDS, text \in AmountTexts :
             (topup_amount(u, text) /\ ~reply'.stored)
             => (reply'.result # "ok" /\ driver_accounts' = driver_accounts)]_vars

\* The dailyHours map of a salary record: clock_bot's records carry the keys
\* monthly_salary, total_hours and last_updated only.
DailyHours(rec) == IF "daily_hours" \in DOMAIN rec THEN rec.daily_hours ELSE EmptyDict

RECURSIVE SumValues(_, _)
SumValues(f, D) ==
    IF D = {} THEN 0
    ELSE LET k == CHOOSE x \in D : TRUE IN f[k] + SumValues(f, D \ {k})

\* C9: total_hours of every salary record equals the sum of the values of its
\* dailyHours map.
C9_TotalEqualsDailySum ==
    \A u \in DOMAIN driver_salaries :
        driver_salaries[u].total_hours =
            SumValues(DailyHours(driver_salaries[u]), DOMAIN DailyHours(driver_salaries[u]))

(***************************************************************************)
(* Clock skew and the accrued hours: claims C11 and C12.                   *)
(***************************************************************************)
Abs(x) == IF x < 0 THEN -x ELSE x

\* C11: a successful /clockout at a time earlier than the stored clockIn adds
\* the absolute value of the elapsed time to total_hours and replies the
\* duration string of that absolute value.
C11_NegativeElapsedUsesAbs ==
    [][\A u \in Drivers :
          (/\ clockout(u)
           /\ reply'.result \in {"ok", "ok_no_hours"}
           /\ IsReal(driver_logs[u][DateOf(now)].in)
           /\ now < driver_logs[u][DateOf(now)].in.t)
          => LET d == Abs(TotalSeconds(driver_logs[u][DateOf(now)].in.t, now))
             IN  /\ TotalHours(driver_salaries', u) = TotalHours(driver_salaries, u) + d
                 /\ reply'.shown = SpecDuration(d)]_vars

\* C12: total_hours of every driver is never negative and never decreases in
\* a step, in memory and in the store.
C12_TotalHoursMonotone ==
    [][\A u \in Drivers :
          /\ TotalHours(driver_salaries', u) >= 0
          /\ TotalHours(db_salaries', u) >= 0
          /\ TotalHours(driver_salaries', u) >= TotalHours(driver_salaries, u)
          /\ TotalHours(db_salaries', u) >= TotalHours(db_salaries, u)]_vars

(***************************************************************************)
(* Claims and top-ups: claims C13 to C17.                                  *)
(***************************************************************************)
\* C13: a claim whose amount is zero or negative is rejected: the photo that
\* would complete it gets no success reply and changes no account, in memory
\* or in the store.
C13_NonPositiveClaimRejected ==
    [][\A u \in Claimants, f \in PhotoIds :
          (claim_proof(u, f) /\ claim_state[u].amount <= 0)
          => (reply'.result # "ok" /\ UNCHANGED <<driver_accounts, db_accounts>>)]_vars

\* Every claim entry of the accounts carries a non-empty proof reference.
AllClaimsHaveProof(accounts) ==
    \A u \in DOMAIN accounts :
        \A i \in 1..Len(accounts[u].claims) : accounts[u].claims[i].photo # ""

\* C14: no step of the claim conversation before the photo, and no /cancel,
\* changes an account in memory or in the store, and every claim entry in
\* memory and in the store carries a non-empty proof reference.
C14_ClaimPersistedOnlyWithProof ==
    [][/\ \A u \in Claimants :
             (\/ claim_start(u)
              \/ \E text \in TypeTexts : claim_type(u, text)
              \/ \E text \in DescriptionTexts : claim_other_type(u, text)
              \/ \E text \in AmountTexts : claim_amount(u, text)
              \/ cancel(u))
             => UNCHANGED <<driver_accounts, db_accounts>>
       /\ AllClaimsHaveProof(driver_accounts')
       /\ AllClaimsHaveProof(db_accounts')]_vars

\* C14 happens: a second claim of a driver has its amount and waits for the
\* photo, while the accounts hold the first claim only, with its photo.
C14_Witness ==
    /\ reply.op = "claim_amount" /\ reply.result = "send_proof"
    /\ reply.user \in DOMAIN driver_accounts /\ reply.user \in DOMAIN db_accounts
    /\ Len(driver_accounts[reply.user].claims) = 1
    /\ Len(db_accounts[reply.user].claims) = 1
    /\ db_accounts[reply.user].claims[1].photo \in PhotoIds

\* C15: a top-up whose amount is zero or negative is rejected: no success
\* reply, no top-up entry and no balance change, in memory or in the store.
C15_NonPositiveTopupRejected ==
    [][\A u \in ADMIN_IDS, text \in AmountTexts :
          (/\ topup_amount(u, text)
           /\ ~NotANumber(text)
           /\ FloatOf(text) <= 0)
          => (reply'.result # "ok" /\ UNCHANGED <<driver_accounts, db_accounts>>)]_vars

\* The account after a claim of amount a was added to the account acc.
IsClaimed(acc, acc1, a) ==
    /\ acc1.balance = acc.balance - a
    /\ Len(acc1.claims) = Len(acc.claims) + 1
    /\ acc1.claims[Len(acc1.claims)].amount = a
    /\ acc1.topup_history = acc.topup_history

\* The account after a top-up of amount a was added to the account acc.
IsToppedUp(acc, acc1, a) ==
    /\ acc1.balance = acc.balance + a
    /\ Len(acc1.topup_history) = Len(acc.topup_history) + 1
    /\ acc1.topup_history[Len(acc1.topup_history)].amount = a
    /\ acc1.claims = acc.claims

\* C16: the photo of a claim of amount a is never refused, whatever the
\* balance; it appends one claim and lowers the balance by a in memory, and in
\* the store when the write was made.  A completed top-up of amount a appends
\* one top-up entry and raises the balance by a in the same way.
C16_ClaimAndTopupExact ==
    [][/\ \A u \in Claimants, f \in PhotoIds :
             claim_proof(u, f)
             => /\ reply'.result = "ok"
                /\ IsClaimed(DocOf(driver_accounts, u), driver_accounts'[u],
                             claim_state[u].amount)
                /\ reply'.stored
                   => IsClaimed(DocOf(db_accounts, u), db_accounts'[u],
                                claim_state[u].amount)
       /\ \A u \in ADMIN_IDS, text \in AmountTexts :
             (topup_amount(u, text) /\ reply'.result = "ok")
             => LET uid == user_data[u]["topup_uid"]
                IN  /\ IsToppedUp(DocOf(driver_accounts, uid), driver_accounts'[uid],
                                  FloatOf(text))
                    /\ reply'.stored
                       => IsToppedUp(DocOf(db_accounts, uid), db_accounts'[uid],
                                     FloatOf(text))]_vars

\* C16 happens: from balance 0 a claim of 50.00 and then a top-up of 100.00
\* were made and stored: balance 50.00, one claim, one top-up entry.
C16_Witness ==
    /\ reply.op = "topup_amount" /\ reply.result = "ok" /\ reply.stored
    /\ reply.amount = 10000
    /\ reply.user \in DOMAIN db_accounts
    /\ db_accounts[reply.user].balance = 5000
    /\ Len(db_accounts[reply.user].claims) = 1
    /\ db_accounts[reply.user].claims[1].amount = 5000
    /\ Len(db_accounts[reply.user].topup_history) = 1
    /\ driver_accounts[reply.user] = db_accounts[reply.user]

\* C17: /balance replies 0 for a driver without an account and the balance of
\* the account otherwise, and changes no account, attendance or salary record
\* in memory or in a store.
C17_BalanceIsPureRead ==
    [][\A u \in Drivers :
          balance(u)
          => /\ reply'.amount = (IF u \in DOMAIN driver_accounts
                                 THEN driver_accounts[u].balance ELSE 0)
             /\ UNCHANGED <<memVars, dbVars, sqVars>>]_vars

\* C17 happens: /balance was answered for a driver without an account while
\* another driver has one with a balance that is not 0.
C17_Witness ==
    /\ reply.op = "balance" /\ reply.amount = 0
    /\ reply.user \notin DOMAIN driver_accounts
    /\ \E v \in DOMAIN driver_accounts : driver_accounts[v].balance # 0

(***************************************************************************)
(* Attendance records in the stores: claims C18 and C19.                   *)
(***************************************************************************)
\* C18: the store holds at most one attendance record per (driver, date): no
\* two rows of clock_logs have the same driver and date (the collection
\* driver_logs is keyed by driver and date).
C18_OneRecordPerDriverDate ==
    \A i, j \in 1..Len(sq_logs) :
        (sq_logs[i].driver_id = sq_logs[j].driver_id /\ sq_logs[i].date = sq_logs[j].date)
        => i = j

\* A clockOut is not a real timestamp while the clockIn is 'N/A', and the
\* clockIn is 'OFF' exactly when the clockOut is 'OFF'.
WellFormedRecord(clock_in, clock_out) ==
    /\ ~(clock_in = NA /\ IsReal(clock_out))
    /\ (clock_in = OFF) <=> (clock_out = OFF)

C20_HistoryAndBalanceTogether ==
    [][/\ \A d \in Drivers :
             GetAccountBalance(sq_accounts', d) - GetAccountBalance(sq_accounts, d)
                = (SumAmounts(RowsOf(sq_topups', d)) - SumAmounts(RowsOf(sq_topups, d)))
                  - (SumAmounts(RowsOf(sq_claims', d)) - SumAmounts(RowsOf(sq_claims, d)))
       /\ \A u \in DOMAIN db_accounts' :
             DocOf(db_accounts', u).balance - DocOf(db_accounts, u).balance
                = (SumAmounts(DocOf(db_accounts', u).topup_history)
                   - SumAmounts(DocOf(db_accounts, u).topup_history))
                  - (SumAmounts(DocOf(db_accounts', u).claims)
                     - SumAmounts(DocOf(db_accounts, u).claims))]_vars

(***************************************************************************)
(* Clock-out atomicity and independence of drivers: claims C21 and C25.    *)
(***************************************************************************)
\* The hours of the persisted attendance records of driver u that show a real
\* clockOut.
RECURSIVE StoredWorkedSeconds(_, _)
StoredWorkedSeconds(u, D) ==
    IF D = {} THEN 0
    ELSE LET d == CHOOSE x \in D : TRUE
             rec == IF <<u, d>> \in DOMAIN db_logs THEN db_logs[<<u, d>>]
                    ELSE [clock_in |-> NA, clock_out |-> NA]
         IN  (IF IsReal(rec.clock_in) /\ IsReal(rec.clock_out)
              THEN TotalSeconds(rec.clock_in.t, rec.clock_out.t) ELSE 0)
             + StoredWorkedSeconds(u, D \ {d})

\* C21: in the store, the hours of the salary record of a driver are exactly the
\* hours of the driver's records that show a real clockOut: the clockOut and
\* the accrual of its hours are persisted together or not at all.
C21_ClockOutAndHoursTogether ==
    \A u \in Drivers : TotalHours(db_salaries, u) = StoredWorkedSeconds(u, Dates)

\* C25: a clock-in, clock-out or off-day of one driver leaves every in-memory
\* and persisted record of every other driver unchanged.
C25_OtherDriversUntouched ==
    [][\A u \in Drivers :
          (clockin(u) \/ clockout(u) \/ offday(u)) =>
              \A v \in Drivers \ {u} :
                  /\ RecordsOf(driver_logs', v) = RecordsOf(driver_logs, v)
                  /\ RecordsOf(driver_salaries', v) = RecordsOf(driver_salaries, v)
                  /\ \A d \in Dates : StoredLog(db_logs', v, d) = StoredLog(db_logs, v, d)
                  /\ RecordsOf(db_salaries', v) = RecordsOf(db_salaries, v)]_vars

(***************************************************************************)
(* Salary settings and the hourly rate: claims C27 to C30.                 *)
(***************************************************************************)
\* The monthly salary of driver u, as a set that is empty when u has no salary
\* record or the record has no monthly salary.
MonthlySalaryOf(salaries, u) ==
    IF u \in DOMAIN salaries /\ "monthly_salary" \in DOMAIN salaries[u]
    THEN {salaries[u].monthly_salary} ELSE {}

\* C27: the monthly salary of a driver is changed only by the salary setting of
\* the admin and the accrued hours only by a clock-out; a clock-out does not
\* set or change the monthly salary and a salary setting leaves the hours.
C27_SalaryAndHoursFrames ==
    [][\A u \in Drivers :
          /\ MonthlySalaryOf(driver_salaries', u) # MonthlySalaryOf(driver_salaries, u)
                => \E text \in SalaryTexts : salary_enter_amount(ADMIN_ID, text)
          /\ TotalHours(driver_salaries', u) # TotalHours(driver_salaries, u)
                => clockout(u)
          /\ clockout(u)
                => MonthlySalaryOf(driver_salaries', u) = MonthlySalaryOf(driver_salaries, u)
          /\ (\E text \in SalaryTexts : salary_enter_amount(ADMIN_ID, text))
                => TotalHours(driver_salaries', u) = TotalHours(driver_salaries, u)]_vars

\* rate is salary / (22 * 8) rounded to the nearest cent.
IsRoundedRate(salary, rate) ==
    2 * Abs(WORKING_DAYS_PER_MONTH * WORKING_HOURS_PER_DAY * rate - salary)
        <= WORKING_DAYS_PER_MONTH * WORKING_HOURS_PER_DAY

ValidSalaries == {5000, 10000, 176000, 350000}

\* C28: the hourly rate of a valid monthly salary is the salary divided by
\* 22 * 8 and rounded to two decimal places, 19.89 for 3500.00; the rate of
\* None is the default 20.00.  It is the rate the report of a driver prints.
C28_HourlyRateRounded ==
    /\ \A m \in ValidSalaries : IsRoundedRate(m, calculate_hourly_rate(Num(m)))
    /\ calculate_hourly_rate(Num(350000)) = 1989
    /\ calculate_hourly_rate(None) = 2000
    /\ \A u \in Drivers :
          /\ reply.op = "generate_driver_pdf" /\ reply.user = u
          /\ u \in DOMAIN driver_salaries
          /\ driver_salaries[u].monthly_salary > 0
          => IsRoundedRate(driver_salaries[u].monthly_salary, reply.amount)

\* A report printed 19.89 for a driver whose monthly salary is 3500.00.
C28_Witness ==
    /\ reply.op = "generate_driver_pdf" /\ reply.user = 1
    /\ MonthlySalaryOf(driver_salaries, 1) = {350000}
    /\ reply.amount = 1989

\* C29: the hourly rate is the default whenever the monthly salary is absent,
\* zero, negative or not a number, and it is always positive: so is the rate
\* every report prints.
C29_HourlyRateFallsBack ==
    \A u \in Drivers :
        reply.op = "generate_driver_pdf" /\ reply.user = u =>
            /\ reply.amount > 0
            /\ \A m \in MonthlySalaryOf(driver_salaries, u) :
                  m <= 0 => reply.amount = DEFAULT_HOURLY_RATE

\* C30: the hourly rate of a driver is the rate calculated from the monthly
\* salary of the driver's salary record when there is one, and the default
\* hourly rate otherwise.
C30_DriverRateFromSalaryOrDefault ==
    \A u \in Drivers :
        reply.op = "generate_driver_pdf" /\ reply.user = u =>
            reply.amount =
                IF MonthlySalaryOf(driver_salaries, u) = {}
                THEN DEFAULT_HOURLY_RATE
                ELSE calculate_hourly_rate(Num(driver_salaries[u].monthly_salary))

\* A report printed 10.00 for a driver whose monthly salary the admin set to
\* 1760.00.
C30_Witness ==
    /\ reply.op = "generate_driver_pdf" /\ reply.user = 1
    /\ MonthlySalaryOf(driver_salaries, 1) = {176000}
    /\ reply.amount = 1000

(***************************************************************************)
(* The cache and the store: claims C22 and C26.                            *)
(***************************************************************************)
\* The in-memory attendance record of (driver, date) in the shape of the store,
\* as a set.
CachedLog(logs, u, d) ==
    IF u \in DOMAIN logs /\ d \in DOMAIN logs[u]
    THEN {[clock_in |-> logs[u][d].in, clock_out |-> logs[u][d].out]} ELSE {}

\* C22: after every completed operation and after a restart, the in-memory
\* record of every driver equals the driver's persisted record.
C22_CacheEqualsStore ==
    \A u \in Drivers :
        /\ \A d \in Dates : CachedLog(driver_logs, u, d) = StoredLog(db_logs, u, d)
        /\ RecordsOf(driver_salaries, u) = RecordsOf(db_salaries, u)
        /\ DocOf(driver_accounts, u) = DocOf(db_accounts, u)

\* s is an initial segment of t.
IsPrefix(s, t) == Len(s) <= Len(t) /\ SubSeq(t, 1, Len(s)) = s

\* C26: the persisted claims and top-up history of every account only grow at
\* their end: no step removes, reorders or modifies a persisted entry.
C26_HistoriesAppendOnly ==
    [][\A u \in DOMAIN db_accounts :
          /\ u \in DOMAIN db_accounts'
          /\ IsPrefix(db_accounts[u].claims, db_accounts'[u].claims)
          /\ IsPrefix(db_accounts[u].topup_history, db_accounts'[u].topup_history)]_vars

(***************************************************************************)
(* Interleaved handler executions: claims C23 and C24.                     *)
(***************************************************************************)
\* No handler execution is in flight.
Quiescent == \A t \in Threads : threads[t].pc = "idle"

\* C23: when the claims and top-ups of a driver are handled by interleaved
\* executions, the balance reflects every completed claim and top-up: once
\* the executions have ended, the balance of every account is the sum of its
\* top-ups minus the sum of its claims.
C23_NoLostBalanceUpdate ==
    Quiescent =>
        \A u \in DOMAIN driver_accounts :
            driver_accounts[u].balance =
                SumAmounts(driver_accounts[u].topup_history)
                - SumAmounts(driver_accounts[u].claims)

\* The hours of the in-memory attendance records of driver u that are clocked
\* out.
RECURSIVE WorkedSeconds(_, _)
WorkedSeconds(u, D) ==
    IF D = {} THEN 0
    ELSE LET d == CHOOSE x \in D : TRUE
         IN  (IF RecState(driver_logs, u, d) = "CLOCKED_OUT"
              THEN TotalSeconds(driver_logs[u][d].in.t, driver_logs[u][d].out.t) ELSE 0)
             + WorkedSeconds(u, D \ {d})

\* C24: of two interleaved clock-outs of a driver for one date at most one
\* passes the checks, and the hours of the date are accrued once: once the
\* executions have ended, total_hours is the sum of the hours of the
\* clocked-out records.
C24_NoDoubleClockOut ==
    /\ \A t1, t2 \in Threads :
          /\ t1 # t2
          /\ threads[t1].pc # "idle" /\ threads[t2].pc # "idle"
          /\ threads[t1].user = threads[t2].user
          => threads[t1].today # threads[t2].today
    /\ Quiescent =>
          \A u \in Drivers : TotalHours(driver_salaries, u) = WorkedSeconds(u, Dates)

(***************************************************************************)
(* The salary effect of a clock-out, written twice: claim C31.             *)
(***************************************************************************)
\* C31: a salary update of (driver, date, hours) applied to a row that already
\* holds it, daily_log[date] = hours, leaves the row as it is: total_hours
\* and daily_log after the second write equal those after the first.
C31_SalaryUpdateIdempotent ==
    [][\A d \in Drivers, date \in Dates, h \in SqHours :
          /\ d \in DOMAIN sq_salaries
          /\ date \in DOMAIN sq_salaries[d].daily_log
          /\ sq_salaries[d].daily_log[date] = h
          /\ update_driver_salary(d, h, date, h)
          => sq_salaries'[d] = sq_salaries[d]]_vars

C33_TimestampsOnRecordDate ==
    \A u \in DOMAIN driver_logs : \A d \in DOMAIN driver_logs[u] :
        /\ IsReal(driver_logs[u][d].in) => DateOf(driver_logs[u][d].in.t) = d
        /\ IsReal(driver_logs[u][d].out) => DateOf(driver_logs[u][d].out.t) = d

(***************************************************************************)
(* Accrued hours and attendance records in memory: claim C34.              *)
(***************************************************************************)
\* C34: in memory, total_hours of every driver is the sum of the hours of the
\* driver's records that have a real clockOut, and a clock-out that replies
\* success with a duration has accrued it.
C34_TotalHoursMatchRecords ==
    /\ \A u \in Drivers :
          TotalHours(driver_salaries, u) = WorkedSeconds(u, Dates)
    /\ reply.op = "clockout" /\ reply.result = "ok" =>
          TotalHours(driver_salaries, reply.user) >= reply.hours

(***************************************************************************)
(* A clock-in left open when its date ends: claim C35.                     *)
(***************************************************************************)
\* Driver u has a record of an earlier date that is still clocked in.
HasEarlierOpenClockIn(u) ==
    \E d \in Dates : d < DateOf(now) /\ RecState(driver_logs, u, d) = "CLOCKED_IN"

\* C35: a clock-out of a driver who has no record today and an open clock-in
\* of an earlier date is refused as not clocked in and changes no record and
\* no hours; and a record that is clocked in when its date has ended stays
\* clocked in.
C35_NoClockOutOnLaterDate ==
    [][\A u \in Drivers :
          /\ (/\ HasEarlierOpenClockIn(u)
              /\ NoRecordToday(driver_logs, u, DateOf(now))
              /\ clockout(u))
             => /\ reply'.result = "not_clocked_in"
                /\ UNCHANGED <<memVars, dbVars>>
          /\ \A d \in Dates :
                d < DateOf(now) /\ RecState(driver_logs, u, d) = "CLOCKED_IN"
                => RecState(driver_logs', u, d) = "CLOCKED_IN"]_vars

\* A clock-out on day 1 of a driver whose clock-in of day 0 is still open was
\* refused.
C35_Witness ==
    /\ reply.op = "clockout" /\ reply.result = "not_clocked_in"
    /\ \E u \in Drivers : reply.user = u /\ HasEarlierOpenClockIn(u)

(***************************************************************************)
(* What the hourly rate depends on: claim C36.                             *)
(***************************************************************************)
\* C36: the hourly rate of a driver changes only when the admin sets the
\* driver's salary: no clock-in, clock-out, claim or report changes it.
C36_RateDependsOnlyOnSalarySetting ==
    [][\A u \in Drivers :
          get_driver_hourly_rate(driver_salaries', u)
              # get_driver_hourly_rate(driver_salaries, u)
          => \E text \in SalaryTexts : salary_enter_amount(ADMIN_ID, text)]_vars

(***************************************************************************)
(* Admin-only operations: claim C37.                                       *)
(***************************************************************************)
\* Every top-up of every account in the dictionary was made by an admin.
ToppedUpByAdmins(accounts) ==
    \A u \in DOMAIN accounts :
        \A i \in 1..Len(accounts[u].topup_history) :
            accounts[u].topup_history[i].admin \in ADMIN_IDS

\* C37: /topup, /salary, /migrate and /export of a caller who is not an admin
\* change nothing; such a caller is never in a state of the top-up or salary
\* conversation; and every top-up in memory and in the store has an admin in
\* its admin field.
C37_AdminOnly ==
    [][/\ \A u \in Users \ ADMIN_IDS :
             (topup_start(u) \/ salary_start(u) \/ migrate_data(u) \/ export_data(u))
             => /\ reply'.result = "no_permission"
                /\ UNCHANGED <<memVars, dbVars, convVars, salary_conv>>
       /\ \A u \in Users \ ADMIN_IDS :
             topup_conv'[u] = "END" /\ salary_conv'[u] = "END"
       /\ ToppedUpByAdmins(driver_accounts') /\ ToppedUpByAdmins(db_accounts')]_vars

\* A driver who has an account sent /topup and was refused, after the admin
\* topped the account up.
C37_Witness ==
    /\ reply.op = "topup_start" /\ reply.user \notin ADMIN_IDS
    /\ reply.result = "no_permission"
    /\ \E u \in DOMAIN driver_accounts : Len(driver_accounts[u].topup_history) > 0

(***************************************************************************)
(* The claim being entered and the state of the claim conversation: C38.   *)
(***************************************************************************)
\* C38: a user whose claim conversation waits for the amount or the proof has
\* an entry in claim_state, with an amount when the proof is awaited; a user
\* whose claim conversation has ended has none.
C38_ClaimStateFollowsConversation ==
    \A u \in Users :
        /\ claim_conv[u] \in {"CLAIM_OTHER_TYPE", "CLAIM_AMOUNT", "CLAIM_PROOF"}
              => u \in DOMAIN claim_state
        /\ claim_conv[u] = "CLAIM_PROOF"
              => u \in DOMAIN claim_state /\ claim_state[u].has_amount
        /\ claim_conv[u] = "END" => u \notin DOMAIN claim_state

(***************************************************************************)
(* The connection to the store: C39.                                       *)
(***************************************************************************)
\* The waits taken before the n-th failed attempt is followed by another one:
\* 5, 10, 20, 40 seconds.
BackoffWaits(n) == [i \in 1..n |-> delay * 2^(i - 1)]

ConnectionFailures(outcomes) ==
    \A i \in 1..Len(outcomes) : outcomes[i] \in ConnectionErrors

ConnectRetriesBounded ==
    LET n == Len(mongo.attempts)
        last == mongo.attempts[n]
        before == SubSeq(mongo.attempts, 1, n - 1)
    IN  /\ n <= 5
        /\ mongo.pc = "connect" =>
              /\ ConnectionFailures(mongo.attempts)
              /\ n <= 4
              /\ mongo.slept = BackoffWaits(n)
        /\ mongo.pc = "sleep" =>
              /\ ConnectionFailures(mongo.attempts)
              /\ n \in 1..4
              /\ mongo.slept = BackoffWaits(n - 1)
        /\ mongo.pc = "returned" =>
              /\ n >= 1
              /\ ConnectionFailures(before)
              /\ mongo.slept = BackoffWaits(n - 1)
              /\ mongo.returned = "client" <=> last = "connected"
              /\ mongo.returned = "None" <=>
                    \/ last \in ConnectionErrors /\ n = 5
                    \/ last \notin ConnectionErrors \cup {"connected"}
              /\ last \in ConnectionErrors => n = 5
        /\ mongo.returned \in {"nothing", "client", "None"}
        /\ mongo.returned = "nothing" <=> mongo.pc # "returned"

\* C39: create_mongo_client ends after at most 5 attempts; it returns the client
\* at the first attempt that succeeds, sleeps 5, 10, 20 and 40 seconds between
\* failed attempts, returns None after the 5th connection failure without
\* another sleep, and returns None at once on any other exception.
C39_ConnectTerminates ==
    /\ []ConnectRetriesBounded
    /\ <>(mongo.pc = "returned")

C39_Witness ==
    /\ mongo.returned = "None"
    /\ Len(mongo.attempts) = 5
    /\ mongo.slept = <<5, 10, 20, 40>>

=============================================================================
